---- MODULE Spec2Model ----
(***************************************************************************)
(* A model of TorchSlime's handler-tree execution engine:                  *)
(*   - the scoped attribute guards (utils/bases.py),                       *)
(*   - the rank gate of the launch hooks (core/hooks/launch.py),           *)
(*   - the object collectives of TorchComm (util/__init__.py),             *)
(*   - the iteration containers and the gradient-accumulation handlers     *)
(*     (handler/common.py).                                                *)
(* Each subsystem has its own specification over its own variables; the    *)
(* variables of the other subsystems stay at their initial values.         *)
(***************************************************************************)
EXTENDS Integers, Sequences, FiniteSets, TLC

VARIABLES
    \* ---- scoped attributes (utils/bases.py) ----
    obj,        \* the target's __dict__: a function from the names that are set
    readonly,   \* the names the target's class declares with ReadonlyAttr
                \* (the target has a plain attribute "a" and a read-only "b")
    scopes,     \* the live "with" scopes, outermost first
    exc,        \* the exception in flight, or "none"
    lastExit,   \* what the most recent __exit__ did (history), or NoExit
    \* ---- launch hooks (core/hooks/launch.py) ----
    hook,       \* the launch hook of the run: "VanillaLaunch" or "DistributedLaunch"
    launchCtx,  \* the execution context: the ids of the handlers that ran, in order
    ncalls,     \* how many handler_call calls were made
    lastCall,   \* what the most recent handler_call did (history), or NoCall
    \* ---- object collectives (util/__init__.py, TorchComm) ----
    commObjs,   \* rank -> the object that rank passes to the collective
    commPc,     \* rank -> where that rank's call is: "call", "sizes", "payload", "done"
    commLocal,  \* rank -> the locals of that rank's call
    netSizes,   \* the length exchange: rank -> the size tensor it contributed (-1: not yet)
    netPayload, \* the payload exchange: rank -> the byte tensor it contributed
    commResult, \* rank -> what the call returned (<<>> while it has not)
    commRoot,   \* the dst / src argument of a rooted collective
    commList,   \* the list the source rank passes to scatter_object
    netScalar,  \* the scalar broadcast from the source rank (-1: not yet)
    \* ---- iteration containers and handlers (handler/common.py) ----
    tMode,          \* the container that is run: "IterationContainer" or "StepIterationContainer"
    loader,         \* what model_state.get_loader(ctx) returns: the batches, or NoLoader
    pipeline_ctx,   \* ctx.pipeline_ctx: grad_acc, optimizer, loss_func
    iteration_ctx,  \* ctx.iteration_ctx: start, total, current
    step_ctx,       \* ctx.step_ctx: total, current, batch, loss
    tPc,            \* where handle is: "idle", "loop", "done"
    tK,             \* how many items the loop has taken from its iterator
    tScopes,        \* the scopes the container holds open around its loop
    tTrace,         \* history: one record for each traversal of the children
    \* ---- EpochIterationContainer (handler/common.py) ----
    tEpoch,         \* how many indices the epoch loop has taken from its range
    eTrace,         \* history: what the epoch container saw at each of its steps
    tRaised,        \* the exception that ended handle, "none" without one
    tBefore,        \* history: step_ctx and iteration_ctx when handle was called
    hLog,           \* history: the handlers called one by one, with what each did
    \* ---- AttrObservable (utils/bases.py) ----
    oAttrs,         \* the observable's own attributes: name -> value
    oObserve,       \* __observe: attribute name -> list of observers, when it is set
    oObserveAttrs,  \* __observe_attrs: observer -> set of names, when it is set
    oCalls,         \* history: the callbacks invoked, with the operation that did it
    oLog,           \* history: the operations called on the observable
    \* ---- BiList / BiListItem (utils/bases.py) ----
    lists,          \* container -> its list of items
    parent,         \* item -> the container of its parent reference, or NOTHING
    bLast,          \* history: the last operation, whether it warned
    bClean,         \* history: no item was ever added while it was a member
    \* ---- Singleton (util/__init__.py, utils/decorators.py) ----
    sImpl,          \* which of the two decorators wraps the class
    sPc,            \* thread -> where its constructor call is
    sLocks,         \* lock -> the thread that holds it, 0 when it is free
    sInstance,      \* the stored instance, NOTHING before the first one
    sMade,          \* history: how many times the class was instantiated
    sGot,           \* thread -> the instance its call returned, NOTHING before
    \* ---- Base namespaces (utils/bases.py) ----
    nsAttrs,        \* the namespace tree: path -> the kind of value set there
    nsItem,         \* the dotted path given to check__, as its segments
    nsResult,       \* history: what check__ returned and the reads it made
    \* ---- object collectives over a blocking transport (util/__init__.py) ----
    xKind,          \* the object collective that is called
    xRoot,          \* its src / dst argument
    xObjs,          \* rank -> its object (scatter_object: the list src passes)
    xCallers,       \* the ranks that make the call
    xPc,            \* rank -> "idle", "in" a transport collective, "out" of it, "done"
    xIssued,        \* history: rank -> the transport collectives it has entered
    xHeard,         \* rank -> what the transport collectives it left handed it
    \* ---- the handler trees and the build steps (core/hooks/launch.py) ----
    runTrain,       \* ctx.run.train: the handlers of the training tree, in order
    runEval,        \* ctx.run.eval: the handlers of the evaluation tree, in order
    runBuilt        \* history: the build steps that were run, in order

scopeVars == <<obj, readonly, scopes, exc, lastExit>>

launchVars == <<hook, launchCtx, ncalls, lastCall>>

rootedVars == <<commRoot, commList, netScalar>>

commVars == <<commObjs, commPc, commLocal, netSizes, netPayload, commResult, rootedVars>>

trainVars ==
    <<tMode, loader, pipeline_ctx, iteration_ctx, step_ctx, tPc, tK, tScopes, tTrace>>

epochVars == <<tEpoch, eTrace, tRaised>>

observeVars == <<oAttrs, oObserve, oObserveAttrs, oCalls, oLog>>

biVars == <<lists, parent, bLast, bClean>>

handleVars == <<tBefore, hLog>>

singletonVars == <<sImpl, sPc, sLocks, sInstance, sMade, sGot>>

nsVars == <<nsAttrs, nsItem, nsResult>>

transportVars == <<xKind, xRoot, xObjs, xCallers, xPc, xIssued, xHeard>>

buildVars == <<runTrain, runEval, runBuilt>>

finalVars == <<transportVars, buildVars>>

laterVars == <<handleVars, singletonVars, nsVars, finalVars>>

vars ==
    <<scopeVars, launchVars, commVars, trainVars, epochVars, observeVars, biVars, laterVars>>

\* what the steps of one subsystem leave alone
nonScopeVars == <<launchVars, commVars, trainVars, epochVars, observeVars, biVars, laterVars>>
nonLaunchVars == <<scopeVars, commVars, trainVars, epochVars, observeVars, biVars, laterVars>>
nonCommVars == <<scopeVars, launchVars, trainVars, epochVars, observeVars, biVars, laterVars>>
nonTrainVars == <<scopeVars, launchVars, commVars, epochVars, observeVars, biVars, laterVars>>
nonEpochVars == <<scopeVars, launchVars, commVars, observeVars, biVars, laterVars>>
nonObserveVars == <<scopeVars, launchVars, commVars, trainVars, epochVars, biVars, laterVars>>
nonBiVars == <<scopeVars, launchVars, commVars, trainVars, epochVars, observeVars, laterVars>>
nonHandleVars ==
    <<scopeVars, launchVars, commVars, epochVars, observeVars, biVars, singletonVars, nsVars,
      finalVars>>
nonSingletonVars ==
    <<scopeVars, launchVars, commVars, trainVars, epochVars, observeVars, biVars, handleVars,
      nsVars, finalVars>>
nonNsVars ==
    <<scopeVars, launchVars, commVars, trainVars, epochVars, observeVars, biVars, handleVars,
      singletonVars, finalVars>>
nonTransportVars ==
    <<scopeVars, launchVars, commVars, trainVars, epochVars, observeVars, biVars, handleVars,
      singletonVars, nsVars, buildVars>>
nonBuildVars ==
    <<scopeVars, launchVars, commVars, trainVars, epochVars, observeVars, biVars, handleVars,
      singletonVars, nsVars, transportVars>>

(***************************************************************************)
(* Values.  NOTHING is the absent sentinel of utils/typing; every other    *)
(* value of an attribute is written as a natural number.                   *)
(***************************************************************************)
NOTHING == -1

\* The deepest nesting of scopes the model explores.
MaxDepth == 2

AttrNames == {"a", "b"}
AttrValues == {1, 2}

\* A function with an empty domain: the empty __dict__ / kwargs.
EmptyFn == [n \in {} |-> NOTHING]

\* s with its last element removed
Front(s) == SubSeq(s, 1, Len(s) - 1)

(***************************************************************************)
(* Attribute access on the target.                                         *)
(***************************************************************************)
\* getattr(self.obj, attr, NOTHING)
Getattr(o, name) == IF name \in DOMAIN o THEN o[name] ELSE NOTHING

\* The names of the target as getattr sees them.
View(o, names) == [n \in names |-> Getattr(o, n)]

\* the set of a sequence's elements
SeqRange(s) == {s[i] : i \in DOMAIN s}

\* object.__setattr__: the unconditional write
ObjectSetattr(o, name, value) ==
    [n \in (DOMAIN o) \cup {name} |-> IF n = name THEN value ELSE o[n]]

\* ReadonlyAttr's __setattr__ wrapper (empty_allowed and nothing_allowed at
\* their defaults): a declared name can be written only while it is unset or
\* holds NOTHING; otherwise the write raises AttributeError.
SetattrRaises(o, ro, name) ==
    /\ name \in ro
    /\ name \in DOMAIN o
    /\ o[name] # NOTHING

\* setattr(self.obj, attr, value): the target after the call (unchanged when
\* the call raises).
Setattr(o, ro, name, value) ==
    IF SetattrRaises(o, ro, name) THEN o ELSE ObjectSetattr(o, name, value)

\* Base.__delattr__: the safe delete
Delattr(o, name) == [n \in (DOMAIN o) \ {name} |-> o[n]]

(***************************************************************************)
(* Python dictionaries keep insertion order: a dict is a sequence of       *)
(* <<key, value>> pairs with distinct keys.                                *)
(***************************************************************************)
DictKeys(d) == {d[i][1] : i \in 1..Len(d)}

DictGet(d, k) == (CHOOSE i \in 1..Len(d) : d[i][1] = k)

DictValue(d, k) == d[DictGet(d, k)][2]

\* d[k] = v
DictSet(d, k, v) ==
    IF k \in DictKeys(d)
    THEN [i \in 1..Len(d) |-> IF d[i][1] = k THEN <<k, v>> ELSE d[i]]
    ELSE Append(d, <<k, v>>)

(***************************************************************************)
(* ScopedAttrRestore / ScopedAttrAssign.  A scope object is a record       *)
(*   api             which call built it: "assign__", "restore__" (the     *)
(*                   ScopedAttr methods, restore left at True) or "m__"    *)
(*                   (the class called directly with restore=False)        *)
(*   attrs           the names, in argument order                          *)
(*   attr_dict       the kwargs of an assign scope (<<>> for restore)      *)
(*   prev_value_dict the recorded values                                   *)
(*   restore         the restore flag of m_init__                          *)
(*   snap            history: the target as it was just before __enter__   *)
(***************************************************************************)
\* ScopedAttrRestore.__init__ followed by m_init__
ScopedAttrRestore__init__(api, attrs, restore) ==
    [api |-> api, attrs |-> attrs, attr_dict |-> <<>>,
     prev_value_dict |-> <<>>, restore |-> restore, snap |-> EmptyFn]

\* ScopedAttrAssign.__init__ followed by m_init__: attrs are kwargs.keys()
ScopedAttrAssign__init__(api, kwargs, restore) ==
    [ScopedAttrRestore__init__(api, [i \in 1..Len(kwargs) |-> kwargs[i][1]], restore)
        EXCEPT !.attr_dict = kwargs]

\* for attr in self.attrs: self.prev_value_dict[attr] = getattr(self.obj, attr, NOTHING)
RECURSIVE BackupLoop(_, _, _, _)
BackupLoop(pvd, o, attrs, i) ==
    IF i > Len(attrs) THEN pvd
    ELSE BackupLoop(DictSet(pvd, attrs[i], Getattr(o, attrs[i])), o, attrs, i + 1)

\* ScopedAttrRestore.__enter__: the scope with its values recorded
ScopedAttrRestore__enter__(self, o) ==
    [self EXCEPT !.prev_value_dict = BackupLoop(self.prev_value_dict, o, self.attrs, 1)]

\* for attr, value in items: try setattr(self.obj, attr, value) except Exception: log
\* The result is the target and the names whose write raised (each is logged).
RECURSIVE SetattrLoop(_, _, _, _, _)
SetattrLoop(o, ro, items, i, failed) ==
    IF i > Len(items) THEN [obj |-> o, failed |-> failed]
    ELSE LET name == items[i][1]
             value == items[i][2]
         IN  IF SetattrRaises(o, ro, name)
             THEN SetattrLoop(o, ro, items, i + 1, failed \cup {name})
             ELSE SetattrLoop(Setattr(o, ro, name, value), ro, items, i + 1, failed)

\* A bug to compare with: the assignment made before the backup.
AssignBeforeBackup(self, o, ro) ==
    LET done == SetattrLoop(o, ro, self.attr_dict, 1, {})
    IN  [self   |-> ScopedAttrRestore__enter__(self, done.obj),
         obj    |-> done.obj,
         failed |-> done.failed]

\* ScopedAttrAssign.__enter__: back up through super().__enter__(), then
\* assign every kwarg, logging and suppressing what raises.
ScopedAttrAssign__enter__(self, o, ro) ==
    LET done == SetattrLoop(o, ro, self.attr_dict, 1, {})
    IN  [self   |-> ScopedAttrRestore__enter__(self, o),
         obj    |-> done.obj,
         failed |-> done.failed]

\* A bug to compare with: the write-back loop without its try/except, so the
\* first write that raises ends the loop and leaves __exit__ as an exception.
RECURSIVE UnguardedLoop(_, _, _, _)
UnguardedLoop(o, ro, items, i) ==
    IF i > Len(items) THEN [obj |-> o, failed |-> {}, raises |-> "none"]
    ELSE IF SetattrRaises(o, ro, items[i][1])
         THEN [obj |-> o, failed |-> {}, raises |-> "AttributeError"]
         ELSE UnguardedLoop(Setattr(o, ro, items[i][1], items[i][2]), ro, items, i + 1)

ExitWithoutTry(self, o, ro, excIn) ==
    IF self.restore THEN UnguardedLoop(o, ro, self.prev_value_dict, 1)
    ELSE [obj |-> o, failed |-> {}, raises |-> "none"]

\* A bug to compare with: write back only when the block returned normally.
ExitOnlyOnSuccess(self, o, ro, excIn) ==
    IF self.restore /\ excIn = "none"
    THEN LET done == SetattrLoop(o, ro, self.prev_value_dict, 1, {})
         IN  [obj |-> done.obj, failed |-> done.failed, raises |-> "none"]
    ELSE [obj |-> o, failed |-> {}, raises |-> "none"]

\* ScopedAttrRestore.__exit__(*args): excIn is the block's exception ("none"
\* after a normal return), which the method does not look at.  It returns
\* None, so it raises nothing itself and does not swallow excIn.
ScopedAttrRestore__exit__(self, o, ro, excIn) ==
    IF self.restore
    THEN LET done == SetattrLoop(o, ro, self.prev_value_dict, 1, {})
         IN  [obj |-> done.obj, failed |-> done.failed, raises |-> "none"]
    ELSE [obj |-> o, failed |-> {}, raises |-> "none"]

(***************************************************************************)
(* The scoped-attribute state machine: a caller opens scopes on one        *)
(* target with "with", runs block code in them and leaves them.  "with"    *)
(* leaves scopes innermost first; an exception in flight leaves one scope  *)
(* after the other until somebody catches it.                              *)
(***************************************************************************)
\* The argument lists the callers pass: one name or both, in either order.
AssignArgs ==
    {<<<<"a", 1>>>>, <<<<"a", 2>>>>,
     <<<<"b", 1>>, <<"a", 1>>>>}

RestoreArgs == {<<"a">>, <<"b", "a">>}

KeepArgs == {<<<<"a", 1>>>>}

\* history: the scope with the named attributes as they are before __enter__
Snapped(self, o) == [self EXCEPT !.snap = View(o, SeqRange(self.attrs))]

NoExit ==
    [api |-> "none", attrs |-> {}, snap |-> EmptyFn, atExit |-> EmptyFn,
     rejected |-> {}, failed |-> {}, excIn |-> "none", excOut |-> "none"]

NoCall ==
    [handler |-> "none", exec_ranks |-> [kind |-> "unbound", ranks |-> {}], rank |-> 0,
     before |-> <<>>, invoked |-> FALSE, raised |-> "none", returned |-> 0]

\* the launch hooks at rest
IdleLaunch ==
    /\ hook = "VanillaLaunch"
    /\ launchCtx = <<>>
    /\ ncalls = 0
    /\ lastCall = NoCall

\* the scoped attributes at rest
IdleScope ==
    /\ obj = EmptyFn
    /\ readonly = {}
    /\ scopes = <<>>
    /\ exc = "none"
    /\ lastExit = NoExit

\* the collectives at rest
IdleComm ==
    /\ commObjs = <<>>
    /\ commPc = <<>>
    /\ commLocal = <<>>
    /\ netSizes = <<>>
    /\ netPayload = <<>>
    /\ commResult = <<>>
    /\ commRoot = 0
    /\ commList = <<>>
    /\ netScalar = -1

\* the containers at rest
IdleTrain ==
    /\ tMode = "none"
    /\ loader = <<>>
    /\ pipeline_ctx = EmptyFn
    /\ iteration_ctx = EmptyFn
    /\ step_ctx = EmptyFn
    /\ tPc = "idle"
    /\ tK = 0
    /\ tScopes = <<>>
    /\ tTrace = <<>>
    /\ tEpoch = 0
    /\ eTrace = <<>>
    /\ tRaised = "none"
    /\ tBefore = <<EmptyFn, EmptyFn>>
    /\ hLog = <<>>

\* a table of the observable: an attribute that is set (to a mapping) or not
NoTable == [set |-> FALSE, value |-> EmptyFn]

\* no observable in use
IdleObserve ==
    /\ oAttrs = EmptyFn
    /\ oObserve = NoTable
    /\ oObserveAttrs = NoTable
    /\ oCalls = <<>>
    /\ oLog = <<>>

\* no container in use
IdleBiList ==
    /\ lists = EmptyFn
    /\ parent = EmptyFn
    /\ bLast = [op |-> "none", c |-> 0, item |-> "-", prev |-> NOTHING, warned |-> FALSE]
    /\ bClean = TRUE

\* no Singleton-decorated class in use
IdleSingleton ==
    /\ sImpl = "none"
    /\ sPc = <<>>
    /\ sLocks = <<>>
    /\ sInstance = NOTHING
    /\ sMade = 0
    /\ sGot = <<>>

\* no namespace in use
IdleNamespace ==
    /\ nsAttrs = EmptyFn
    /\ nsItem = <<>>
    /\ nsResult = <<>>

\* no object collective called over the blocking transport
IdleTransport ==
    /\ xKind = "none"
    /\ xRoot = 0
    /\ xObjs = <<>>
    /\ xCallers = {}
    /\ xPc = <<>>
    /\ xIssued = <<>>
    /\ xHeard = <<>>

\* no handler tree built
IdleBuild ==
    /\ runTrain = <<>>
    /\ runEval = <<>>
    /\ runBuilt = <<>>

\* the subsystems that have no part in the containers' runs
IdleLater ==
    /\ IdleSingleton
    /\ IdleNamespace
    /\ IdleTransport
    /\ IdleBuild

InitScope ==
    /\ IdleLater
    /\ IdleObserve
    /\ IdleBiList
    /\ IdleLaunch
    /\ IdleComm
    /\ IdleTrain
    /\ obj \in UNION {[d -> AttrValues] : d \in SUBSET AttrNames}
    /\ readonly = {"b"}
    /\ scopes = <<>>
    /\ exc = "none"
    /\ lastExit = NoExit

\* with target.assign__(**kwargs):
EnterAssign(kwargs) ==
    /\ exc = "none"
    /\ Len(scopes) < MaxDepth
    /\ LET self == Snapped(ScopedAttrAssign__init__("assign__", kwargs, TRUE), obj)
           r == ScopedAttrAssign__enter__(self, obj, readonly)
       IN  /\ scopes' = Append(scopes, r.self)
           /\ obj' = r.obj
    /\ lastExit' = NoExit
    /\ UNCHANGED <<readonly, exc>>
    /\ UNCHANGED nonScopeVars

\* with target.restore__(*attrs):
EnterRestore(attrs) ==
    /\ exc = "none"
    /\ Len(scopes) < MaxDepth
    /\ LET self == Snapped(ScopedAttrRestore__init__("restore__", attrs, TRUE), obj)
       IN  scopes' = Append(scopes, ScopedAttrRestore__enter__(self, obj))
    /\ lastExit' = NoExit
    /\ UNCHANGED <<obj, readonly, exc>>
    /\ UNCHANGED nonScopeVars

\* with ScopedAttrAssign.m__(target, restore=False)(**kwargs):
EnterKeep(kwargs) ==
    /\ exc = "none"
    /\ Len(scopes) < MaxDepth
    /\ LET self == Snapped(ScopedAttrAssign__init__("m__", kwargs, FALSE), obj)
           r == ScopedAttrAssign__enter__(self, obj, readonly)
       IN  /\ scopes' = Append(scopes, r.self)
           /\ obj' = r.obj
    /\ lastExit' = NoExit
    /\ UNCHANGED <<readonly, exc>>
    /\ UNCHANGED nonScopeVars

\* block code: target.name = value, accepted by the target (a write the
\* target rejects is one of the exceptions of BlockRaise)
BlockSetattr(name, value) ==
    /\ exc = "none"
    /\ ~SetattrRaises(obj, readonly, name)
    /\ obj' = Setattr(obj, readonly, name, value)
    /\ lastExit' = NoExit
    /\ UNCHANGED <<readonly, scopes, exc>>
    /\ UNCHANGED nonScopeVars

\* block code: del target.name
BlockDelattr(name) ==
    /\ exc = "none"
    /\ name \in DOMAIN obj
    /\ obj' = Delattr(obj, name)
    /\ lastExit' = NoExit
    /\ UNCHANGED <<readonly, scopes, exc>>
    /\ UNCHANGED nonScopeVars

\* block code raises
BlockRaise ==
    /\ exc = "none"
    /\ scopes # <<>>
    /\ exc' = "BlockError"
    /\ lastExit' = NoExit
    /\ UNCHANGED <<obj, readonly, scopes>>
    /\ UNCHANGED nonScopeVars

\* The innermost block ends, normally or by the exception in flight, and
\* "with" calls __exit__.  An exception raised by __exit__ replaces the one
\* in flight; __exit__ returning None lets the one in flight go on.
\* lastExit records the scope left, the named attributes as they were when
\* the block ended (atExit), the names whose write-back the target rejects
\* (rejected), the names __exit__ logged (failed) and the exception in
\* flight before and after.
ExitScope ==
    /\ scopes # <<>>
    /\ LET self == scopes[Len(scopes)]
           r == ScopedAttrRestore__exit__(self, obj, readonly, exc)
       IN  /\ obj' = r.obj
           /\ exc' = IF r.raises # "none" THEN r.raises ELSE exc
           /\ lastExit' =
                [api |-> self.api, attrs |-> SeqRange(self.attrs),
                 snap |-> self.snap, atExit |-> View(obj, SeqRange(self.attrs)),
                 rejected |-> IF self.restore
                              THEN {n \in SeqRange(self.attrs) : SetattrRaises(obj, readonly, n)}
                              ELSE {},
                 failed |-> r.failed, excIn |-> exc, excOut |-> exc']
    /\ scopes' = Front(scopes)
    /\ UNCHANGED readonly
    /\ UNCHANGED nonScopeVars

\* try ... except around the blocks
Catch ==
    /\ exc # "none"
    /\ exc' = "none"
    /\ lastExit' = NoExit
    /\ UNCHANGED <<obj, readonly, scopes>>
    /\ UNCHANGED nonScopeVars

NextScope ==
    \/ \E kwargs \in AssignArgs : EnterAssign(kwargs)
    \/ \E attrs \in RestoreArgs : EnterRestore(attrs)
    \/ \E kwargs \in KeepArgs : EnterKeep(kwargs)
    \/ \E name \in AttrNames, value \in AttrValues : BlockSetattr(name, value)
    \/ \E name \in AttrNames : BlockDelattr(name)
    \/ BlockRaise
    \/ ExitScope
    \/ Catch

SpecScope == InitScope /\ [][NextScope]_vars

(***************************************************************************)
(* The launch hooks.  A handler is a record with an id and its exec_ranks: *)
(*   [kind |-> "pass"]     the ellipsis PASS: run on every rank            *)
(*   [kind |-> "none"]     None                                            *)
(*   [kind |-> "nothing"]  NOTHING                                         *)
(*   [kind |-> "ranks"]    an explicit collection, in the field ranks      *)
(* Running a handler appends its id to the execution context.              *)
(***************************************************************************)
\* The highest rank of the process group.
MaxRank == 1

\* How many handler_call calls one run makes.
MaxCalls == 3

Ranks == 0..MaxRank

ExecRanks ==
    {[kind |-> k, ranks |-> {}] : k \in {"pass", "none", "nothing"}}
        \cup {[kind |-> "ranks", ranks |-> R] : R \in SUBSET Ranks}

Handlers == {[id |-> i, exec_ranks |-> e] : i \in {"h1", "h2"}, e \in ExecRanks}

\* A local name of a Python function is unbound until its first assignment.
Unbound == [kind |-> "unbound", ranks |-> {}]

\* is_none_or_nothing(exec_ranks)
is_none_or_nothing(e) == e.kind \in {"none", "nothing"}

\* handler.handle(ctx)
Handle(handler, c) == Append(c, handler.id)

\* A bug to compare with: the vanilla hook gating like the distributed one.
VanillaGated(handler, rank, c) ==
    IF handler.exec_ranks.kind = "pass"
    THEN [ctx |-> Handle(handler, c), invoked |-> TRUE, raised |-> "none"]
    ELSE [ctx |-> c, invoked |-> FALSE, raised |-> "none"]

\* VanillaLaunch.handler_call: handler.handle(ctx)
VanillaLaunch_handler_call(handler, rank, c) ==
    [ctx |-> Handle(handler, c), invoked |-> TRUE, raised |-> "none"]

\* VanillaLaunch.get_rank
VanillaLaunch_get_rank == NOTHING

\* VanillaLaunch.get_world_size
VanillaLaunch_get_world_size == NOTHING

\* DistributedLaunch.handler_call.  exec_ranks is assigned in the body
\* (line 59), so it is a local of the function, and it is read (line 51)
\* before that assignment: reading an unbound local raises
\* UnboundLocalError.
DistributedLaunch_handler_call(handler, rank, c) ==
    LET exec_ranks0 == Unbound                  \* on entry
        exec_ranks1 == handler.exec_ranks       \* after line 59
    IN  IF exec_ranks0 = Unbound
        THEN [ctx |-> c, invoked |-> FALSE, raised |-> "UnboundLocalError"]
        ELSE IF exec_ranks0.kind = "pass"
        THEN [ctx |-> Handle(handler, c), invoked |-> TRUE, raised |-> "none"]
        ELSE IF is_none_or_nothing(exec_ranks0)
        THEN [ctx |-> c, invoked |-> FALSE, raised |-> "none"]
        ELSE IF exec_ranks1.kind = "ranks" /\ rank \in exec_ranks1.ranks
        THEN [ctx |-> Handle(handler, c), invoked |-> TRUE, raised |-> "none"]
        ELSE [ctx |-> c, invoked |-> FALSE, raised |-> "none"]

InitLaunch ==
    /\ IdleLater
    /\ IdleObserve
    /\ IdleBiList
    /\ IdleScope
    /\ IdleComm
    /\ IdleTrain
    /\ hook \in {"VanillaLaunch", "DistributedLaunch"}
    /\ launchCtx = <<>>
    /\ ncalls = 0
    /\ lastCall = NoCall

CallRecord(handler, rank, r) ==
    [handler |-> handler.id, exec_ranks |-> handler.exec_ranks, rank |-> rank,
     before |-> launchCtx, invoked |-> r.invoked, raised |-> r.raised, returned |-> 0]

\* a container asks the vanilla hook to run one of its children
VanillaCall(handler) ==
    /\ hook = "VanillaLaunch"
    /\ ncalls < MaxCalls
    /\ LET r == VanillaLaunch_handler_call(handler, VanillaLaunch_get_rank, launchCtx)
       IN  /\ launchCtx' = r.ctx
           /\ lastCall' = CallRecord(handler, 0, r)
    /\ ncalls' = ncalls + 1
    /\ UNCHANGED hook
    /\ UNCHANGED nonLaunchVars

\* a container asks the distributed hook to run one of its children on the
\* process of rank `rank`
DistributedCall(handler, rank) ==
    /\ hook = "DistributedLaunch"
    /\ ncalls < MaxCalls
    /\ LET r == DistributedLaunch_handler_call(handler, rank, launchCtx)
       IN  /\ launchCtx' = r.ctx
           /\ lastCall' = CallRecord(handler, rank, r)
    /\ ncalls' = ncalls + 1
    /\ UNCHANGED hook
    /\ UNCHANGED nonLaunchVars

\* the rank of the process is asked of the vanilla hook
VanillaGetRank ==
    /\ hook = "VanillaLaunch"
    /\ ncalls < MaxCalls
    /\ lastCall' = [NoCall EXCEPT !.handler = "get_rank", !.before = launchCtx,
                                  !.returned = VanillaLaunch_get_rank]
    /\ ncalls' = ncalls + 1
    /\ UNCHANGED <<hook, launchCtx>>
    /\ UNCHANGED nonLaunchVars

\* the size of the group is asked of the vanilla hook
VanillaGetWorldSize ==
    /\ hook = "VanillaLaunch"
    /\ ncalls < MaxCalls
    /\ lastCall' = [NoCall EXCEPT !.handler = "get_world_size", !.before = launchCtx,
                                  !.returned = VanillaLaunch_get_world_size]
    /\ ncalls' = ncalls + 1
    /\ UNCHANGED <<hook, launchCtx>>
    /\ UNCHANGED nonLaunchVars

NextLaunch ==
    \/ \E handler \in Handlers : VanillaCall(handler)
    \/ VanillaGetRank
    \/ VanillaGetWorldSize
    \/ \E handler \in Handlers, rank \in Ranks : DistributedCall(handler, rank)

SpecLaunch == InitLaunch /\ [][NextLaunch]_vars

(***************************************************************************)
(* TorchComm: the object collectives over a process group of WorldSize     *)
(* ranks.  A byte tensor is a sequence of bytes; the bytes are written     *)
(* symbolically: "PROTO" and "STOP" are pickle's first and last opcode,    *)
(* "x" and "y" payload bytes, "0" the zero byte of torch.zeros.            *)
(***************************************************************************)
\* The number of ranks of the group.
WorldSize == 2

\* The longest object body.
MaxObjLen == 1

CommRanks == 0..(WorldSize - 1)

\* The objects: byte strings of 0..MaxObjLen payload bytes (<<>> is the
\* empty object).
Objects == UNION {[1..n -> {"x", "y"}] : n \in 0..MaxObjLen}

\* What tensor.resize_ leaves in the bytes it adds: uninitialized memory.
PadBytes == {"0", "STOP", "x"}

\* pickle.Pickler(f).dump(obj): a stream that ends with the STOP opcode
Dumps(o) == <<"PROTO">> \o o \o <<"STOP">>

UnpicklingError == <<"UnpicklingError">>

\* pickle.Unpickler(f).load(): reads opcodes up to the first STOP and ignores
\* what follows; a stream without PROTO ... STOP raises.
Loads(b) ==
    IF Len(b) >= 2 /\ b[1] = "PROTO" /\ \E i \in 2..Len(b) : b[i] = "STOP"
    THEN LET stop == CHOOSE i \in 2..Len(b) :
                        b[i] = "STOP" /\ \A j \in 2..(i - 1) : b[j] # "STOP"
         IN  SubSeq(b, 2, stop - 1)
    ELSE UnpicklingError

\* TorchComm._object_to_tensor: the byte tensor and its numel
object_to_tensor(o) == [tensor |-> Dumps(o), size |-> Len(Dumps(o))]

\* TorchComm._tensor_to_object: bytes(tensor.tolist()[:tensor_size]), unpickled
tensor_to_object(t, size) ==
    Loads(SubSeq(t, 1, IF size < Len(t) THEN size ELSE Len(t)))

\* A bug to compare with: the byte tensor passed on at its own size.
ResizeNever(t, n, pad) == t

\* tensor.resize_(n): the first elements kept, the added ones uninitialized
Resize(t, n, pad) == [i \in 1..n |-> IF i <= Len(t) THEN t[i] ELSE pad]

\* A bug to compare with: the smallest size taken for the common size.
MinObjectSize(sizes) ==
    CHOOSE m \in {sizes[r] : r \in DOMAIN sizes} : \A r \in DOMAIN sizes : sizes[r] >= m

\* int(max(object_size_list).item())
MaxObjectSize(sizes) ==
    CHOOSE m \in {sizes[r] : r \in DOMAIN sizes} : \A r \in DOMAIN sizes : sizes[r] <= m

\* TorchComm._transfer_objects: object_list[i] from output_tensors[i], cut
\* to object_size_list[i]
transfer_objects(output_tensors, object_size_list) ==
    [i \in DOMAIN output_tensors |-> tensor_to_object(output_tensors[i], object_size_list[i])]

NoLocal == [object_tensor |-> <<>>, local_size |-> 0, object_size_list |-> <<>>]

InitComm ==
    /\ IdleLater
    /\ IdleObserve
    /\ IdleBiList
    /\ IdleScope
    /\ IdleLaunch
    /\ IdleTrain
    /\ commObjs \in [CommRanks -> Objects]
    /\ commPc = [r \in CommRanks |-> "call"]
    /\ commLocal = [r \in CommRanks |-> NoLocal]
    /\ netSizes = [r \in CommRanks |-> -1]
    /\ netPayload = [r \in CommRanks |-> <<>>]
    /\ commResult = [r \in CommRanks |-> <<>>]
    /\ commRoot = 0
    /\ commList = <<>>
    /\ netScalar = -1

\* all_gather_object on rank r, up to its first collective: serialize the
\* object and enter dist.all_gather of the sizes (_all_gather_size).
AllGatherObjectStart(r) ==
    /\ commPc[r] = "call"
    /\ LET t == object_to_tensor(commObjs[r])
       IN  /\ commLocal' = [commLocal EXCEPT ![r].object_tensor = t.tensor,
                                             ![r].local_size = t.size]
           /\ netSizes' = [netSizes EXCEPT ![r] = t.size]
    /\ commPc' = [commPc EXCEPT ![r] = "sizes"]
    /\ UNCHANGED <<commObjs, netPayload, commResult>>
    /\ UNCHANGED <<rootedVars, nonCommVars>>

\* The all_gather of the sizes returns once every rank has entered it; then
\* rank r resizes its byte tensor to the largest size and enters
\* dist.all_gather of the byte tensors.
AllGatherObjectPayload(r) ==
    /\ commPc[r] = "sizes"
    /\ \A q \in CommRanks : netSizes[q] >= 0
    /\ \E pad \in PadBytes :
        LET object_size_list == netSizes
            max_object_size == MaxObjectSize(object_size_list)
            resized == Resize(commLocal[r].object_tensor, max_object_size, pad)
        IN  /\ commLocal' = [commLocal EXCEPT ![r].object_tensor = resized,
                                              ![r].object_size_list = object_size_list]
            /\ netPayload' = [netPayload EXCEPT ![r] = resized]
    /\ commPc' = [commPc EXCEPT ![r] = "payload"]
    /\ UNCHANGED <<commObjs, netSizes, commResult>>
    /\ UNCHANGED <<rootedVars, nonCommVars>>

\* The all_gather of the byte tensors returns once every rank has entered
\* it; then rank r unpickles every rank's tensor and returns the list.
AllGatherObjectReturn(r) ==
    /\ commPc[r] = "payload"
    /\ \A q \in CommRanks : commPc[q] \in {"payload", "done"}
    /\ LET output_tensors == netPayload
       IN  commResult' = [commResult EXCEPT ![r] =
               transfer_objects(output_tensors, commLocal[r].object_size_list)]
    /\ commPc' = [commPc EXCEPT ![r] = "done"]
    /\ UNCHANGED <<commObjs, commLocal, netSizes, netPayload>>
    /\ UNCHANGED <<rootedVars, nonCommVars>>

NextComm ==
    \/ \E r \in CommRanks : AllGatherObjectStart(r)
    \/ \E r \in CommRanks : AllGatherObjectPayload(r)
    \/ \E r \in CommRanks : AllGatherObjectReturn(r)

SpecComm == InitComm /\ [][NextComm]_vars

(***************************************************************************)
(* The rooted collectives of TorchComm: gather_object to the rank dst,     *)
(* broadcast_object and scatter_object from the rank src.  Every rank of   *)
(* the group makes the same call with the same root (commRoot).  A         *)
(* collective hands a rank its data once the ranks it receives from have   *)
(* entered the collective; a rank that only sends goes on at once.         *)
(***************************************************************************)
\* what a call returns on a rank that is not the destination
ReturnsNone == [i \in {NOTHING} |-> <<>>]

\* torch.zeros(n, dtype=torch.uint8)
Zeros(n) == [i \in 1..n |-> "0"]

\* a collective writes the tensor that was sent into the receive buffer
Receive(buffer, sent) ==
    [i \in 1..Len(buffer) |-> IF i <= Len(sent) THEN sent[i] ELSE buffer[i]]

InitRooted ==
    /\ IdleLater
    /\ IdleObserve
    /\ IdleBiList
    /\ IdleScope
    /\ IdleLaunch
    /\ IdleTrain
    /\ commObjs \in [CommRanks -> Objects]
    /\ commPc = [r \in CommRanks |-> "call"]
    /\ commLocal = [r \in CommRanks |-> NoLocal]
    /\ netSizes = [r \in CommRanks |-> -1]
    /\ netPayload = [r \in CommRanks |-> <<>>]
    /\ commResult = [r \in CommRanks |-> <<>>]
    /\ commRoot \in CommRanks
    /\ commList = <<>>
    /\ netScalar = -1

\* A bug to compare with: the list built on every rank.
GatherReturnsEverywhere(rank, dst, output_tensors, object_size_list) ==
    transfer_objects(output_tensors, object_size_list)

\* gather_object, lines 586-588: None unless this rank is dst
gather_object_return(rank, dst, output_tensors, object_size_list) ==
    IF rank # dst THEN ReturnsNone
    ELSE transfer_objects(output_tensors, object_size_list)

\* gather_object on rank r, up to its first collective: serialize the object
\* and enter dist.all_gather of the sizes (_all_gather_size).
GatherObjectStart(r) ==
    /\ commPc[r] = "call"
    /\ LET t == object_to_tensor(commObjs[r])
       IN  /\ commLocal' = [commLocal EXCEPT ![r].object_tensor = t.tensor,
                                             ![r].local_size = t.size]
           /\ netSizes' = [netSizes EXCEPT ![r] = t.size]
    /\ commPc' = [commPc EXCEPT ![r] = "sizes"]
    /\ UNCHANGED <<commObjs, netPayload, commResult, rootedVars>>
    /\ UNCHANGED nonCommVars

\* The sizes are in: rank r resizes its byte tensor to the largest size and
\* enters dist.gather.
GatherObjectPayload(r) ==
    /\ commPc[r] = "sizes"
    /\ \A q \in CommRanks : netSizes[q] >= 0
    /\ \E pad \in PadBytes :
        LET object_size_list == netSizes
            max_object_size == MaxObjectSize(object_size_list)
            resized == Resize(commLocal[r].object_tensor, max_object_size, pad)
        IN  /\ commLocal' = [commLocal EXCEPT ![r].object_tensor = resized,
                                              ![r].object_size_list = object_size_list]
            /\ netPayload' = [netPayload EXCEPT ![r] = resized]
    /\ commPc' = [commPc EXCEPT ![r] = "payload"]
    /\ UNCHANGED <<commObjs, netSizes, commResult, rootedVars>>
    /\ UNCHANGED nonCommVars

\* dist.gather returns: on dst once every rank has sent, elsewhere at once
GatherObjectReturn(r) ==
    /\ commPc[r] = "payload"
    /\ r = commRoot => \A q \in CommRanks : commPc[q] \in {"payload", "done"}
    /\ commResult' = [commResult EXCEPT ![r] =
           gather_object_return(r, commRoot, netPayload, commLocal[r].object_size_list)]
    /\ commPc' = [commPc EXCEPT ![r] = "done"]
    /\ UNCHANGED <<commObjs, commLocal, netSizes, netPayload, rootedVars>>
    /\ UNCHANGED nonCommVars

NextGather ==
    \/ \E r \in CommRanks : GatherObjectStart(r)
    \/ \E r \in CommRanks : GatherObjectPayload(r)
    \/ \E r \in CommRanks : GatherObjectReturn(r)

SpecGather == InitRooted /\ [][NextGather]_vars

\* A bug to compare with: no receive buffer made on the other ranks.
BufferKept(rank, src, object_tensor, local_size) == object_tensor

\* broadcast_object, lines 639-640: the receive buffer of a rank other than
\* src, sized by the size that was broadcast
broadcast_buffer(rank, src, object_tensor, local_size) ==
    IF rank # src THEN Zeros(local_size) ELSE object_tensor

\* broadcast_object on rank r, up to its first collective: src serializes
\* its object, the others take (None, zeros(1)); dist.broadcast of the size.
BroadcastObjectStart(r) ==
    /\ commPc[r] = "call"
    /\ IF r = commRoot
       THEN LET t == object_to_tensor(commObjs[r])
            IN  /\ commLocal' = [commLocal EXCEPT ![r].object_tensor = t.tensor,
                                                  ![r].local_size = t.size]
                /\ netScalar' = t.size
       ELSE UNCHANGED <<commLocal, netScalar>>
    /\ commPc' = [commPc EXCEPT ![r] = "sizes"]
    /\ UNCHANGED <<commObjs, netSizes, netPayload, commResult, commRoot, commList>>
    /\ UNCHANGED nonCommVars

\* The size is in: a rank other than src makes its buffer; dist.broadcast
\* of the byte tensor.
BroadcastObjectPayload(r) ==
    /\ commPc[r] = "sizes"
    /\ netScalar >= 0
    /\ LET local_size == netScalar
           object_tensor == broadcast_buffer(r, commRoot, commLocal[r].object_tensor,
                                             local_size)
       IN  /\ commLocal' = [commLocal EXCEPT ![r].object_tensor = object_tensor,
                                             ![r].local_size = local_size]
           /\ netPayload' = IF r = commRoot
                            THEN [netPayload EXCEPT ![r] = object_tensor]
                            ELSE netPayload
    /\ commPc' = [commPc EXCEPT ![r] = "payload"]
    /\ UNCHANGED <<commObjs, netSizes, commResult, rootedVars>>
    /\ UNCHANGED nonCommVars

\* The byte tensor is in: _tensor_to_object(object_tensor, object_tensor.numel())
BroadcastObjectReturn(r) ==
    /\ commPc[r] = "payload"
    /\ commPc[commRoot] \in {"payload", "done"}
    /\ LET object_tensor == Receive(commLocal[r].object_tensor, netPayload[commRoot])
       IN  /\ commLocal' = [commLocal EXCEPT ![r].object_tensor = object_tensor]
           /\ commResult' = [commResult EXCEPT ![r] =
                  tensor_to_object(object_tensor, Len(object_tensor))]
    /\ commPc' = [commPc EXCEPT ![r] = "done"]
    /\ UNCHANGED <<commObjs, netSizes, netPayload, rootedVars>>
    /\ UNCHANGED nonCommVars

NextBroadcast ==
    \/ \E r \in CommRanks : BroadcastObjectStart(r)
    \/ \E r \in CommRanks : BroadcastObjectPayload(r)
    \/ \E r \in CommRanks : BroadcastObjectReturn(r)

SpecBroadcast == InitRooted /\ [][NextBroadcast]_vars

\* scatter_object is called with a list of one object for each rank; a rank
\* other than src does not read its argument.
InitScatter ==
    /\ IdleLater
    /\ IdleObserve
    /\ IdleBiList
    /\ IdleScope
    /\ IdleLaunch
    /\ IdleTrain
    /\ commObjs = <<>>
    /\ commPc = [r \in CommRanks |-> "call"]
    /\ commLocal = [r \in CommRanks |-> NoLocal]
    /\ netSizes = [r \in CommRanks |-> -1]
    /\ netPayload = [r \in CommRanks |-> <<>>]
    /\ commResult = [r \in CommRanks |-> <<>>]
    /\ commRoot \in CommRanks
    /\ commList \in [CommRanks -> Objects]
    /\ netScalar = -1

\* A bug to compare with: every rank handed the size of the first object.
ScatterFirst(scatter_list, rank) == scatter_list[0]

\* dist.scatter(tensor, scatter_list, src): rank i receives scatter_list[i]
Scatter(scatter_list, rank) == scatter_list[rank]

\* scatter_object on rank r, up to its first collective: src serializes the
\* objects of the list and resizes every byte tensor to the largest size;
\* dist.broadcast of that size.
ScatterObjectStart(r) ==
    /\ commPc[r] = "call"
    /\ IF r = commRoot
       THEN \E pad \in PadBytes :
            LET local_sizes == [i \in CommRanks |-> object_to_tensor(commList[i]).size]
                max_object_size == MaxObjectSize(local_sizes)
                object_tensors ==
                    [i \in CommRanks |->
                        Resize(object_to_tensor(commList[i]).tensor, max_object_size, pad)]
            IN  /\ commLocal' = [commLocal EXCEPT ![r].object_tensor = object_tensors,
                                                  ![r].object_size_list = local_sizes]
                /\ netScalar' = max_object_size
       ELSE UNCHANGED <<commLocal, netScalar>>
    /\ commPc' = [commPc EXCEPT ![r] = "sizes"]
    /\ UNCHANGED <<commObjs, netSizes, netPayload, commResult, commRoot, commList>>
    /\ UNCHANGED nonCommVars

\* The largest size is in: dist.scatter of the sizes, which src sends.
ScatterObjectSizes(r) ==
    /\ commPc[r] = "sizes"
    /\ netScalar >= 0
    /\ netSizes' = IF r = commRoot THEN commLocal[r].object_size_list ELSE netSizes
    /\ commPc' = [commPc EXCEPT ![r] = "scatter"]
    /\ UNCHANGED <<commObjs, commLocal, netPayload, commResult, rootedVars>>
    /\ UNCHANGED nonCommVars

\* The rank's size is in: a buffer of the largest size is made;
\* dist.scatter of the byte tensors, which src sends.
ScatterObjectPayload(r) ==
    /\ commPc[r] = "scatter"
    /\ \A q \in CommRanks : netSizes[q] >= 0
    /\ netPayload' = IF r = commRoot THEN commLocal[r].object_tensor ELSE netPayload
    /\ commLocal' = [commLocal EXCEPT ![r].object_tensor = Zeros(netScalar),
                                      ![r].local_size = Scatter(netSizes, r)]
    /\ commPc' = [commPc EXCEPT ![r] = "payload"]
    /\ UNCHANGED <<commObjs, netSizes, commResult, rootedVars>>
    /\ UNCHANGED nonCommVars

\* The rank's byte tensor is in: _tensor_to_object(object_tensor, local_size)
ScatterObjectReturn(r) ==
    /\ commPc[r] = "payload"
    /\ commPc[commRoot] \in {"payload", "done"}
    /\ LET object_tensor == Receive(commLocal[r].object_tensor, Scatter(netPayload, r))
       IN  /\ commLocal' = [commLocal EXCEPT ![r].object_tensor = object_tensor]
           /\ commResult' = [commResult EXCEPT ![r] =
                  tensor_to_object(object_tensor, commLocal[r].local_size)]
    /\ commPc' = [commPc EXCEPT ![r] = "done"]
    /\ UNCHANGED <<commObjs, netSizes, netPayload, rootedVars>>
    /\ UNCHANGED nonCommVars

NextScatter ==
    \/ \E r \in CommRanks : ScatterObjectStart(r)
    \/ \E r \in CommRanks : ScatterObjectSizes(r)
    \/ \E r \in CommRanks : ScatterObjectPayload(r)
    \/ \E r \in CommRanks : ScatterObjectReturn(r)

SpecScatter == InitScatter /\ [][NextScatter]_vars

(***************************************************************************)
(* The iteration containers and the gradient-accumulation handlers.  The   *)
(* container's children are LossHandler and an OptimizerContainer holding  *)
(* a BackwardHandler; the run is single-process (VanillaLaunch), so every  *)
(* child runs.  The namespaces of the context are Base objects: functions  *)
(* from the names that are set, read with Getattr.                         *)
(***************************************************************************)
\* The largest number of steps (iteration_ctx.total, the loader's length).
MaxTotal == 10

\* The largest gradient-accumulation factor.
MaxAcc == 3

\* The longest loader of a StepIterationContainer run.
MaxLoader == 2

\* get_loader returned None or NOTHING
NoLoader == <<NOTHING>>

\* a loader of n batches: batch i (0-based) is the number 100 + i
Batches(n) == [i \in 1..n |-> 100 + (i - 1)]

\* A bug to compare with: a check that passes for what is not set.
CheckAlwaysPasses(namespace, name) == TRUE

\* ctx.ctx_check(item): the item is set and is not NOTHING (Base.check__)
ctx_check(namespace, name) == Getattr(namespace, name) # NOTHING

\* ctx.pipeline_ctx.loss_func(ctx): the loss of the batch at hand, a number
\* that tells the batches apart
LossOf(sctx) == 200 + Getattr(sctx, "batch")

\* LossHandler.handle: with a loss function, step_ctx.loss and
\* step_ctx.loss_values are written
LossHandler_handle(pctx, sctx) ==
    IF ctx_check(pctx, "loss_func")
    THEN ObjectSetattr(ObjectSetattr(sctx, "loss", LossOf(sctx)),
                       "loss_values", LossOf(sctx))
    ELSE sctx

\* A bug to compare with: the trailing group never scaled by its own size.
DivisorAlwaysAcc(total, current, grad_acc) == grad_acc

\* A bug to compare with: > for >=.
DivisorStrict(total, current, grad_acc) ==
    LET last == total % grad_acc
    IN  IF (total - current - 1) > last THEN grad_acc ELSE last

\* A bug to compare with: the steps left counted with the current one.
DivisorOffByOne(total, current, grad_acc) ==
    LET last == total % grad_acc
    IN  IF (total - current) >= last THEN grad_acc ELSE last

\* A bug to compare with: the comparison turned round.
DivisorReversed(total, current, grad_acc) ==
    LET last == total % grad_acc
    IN  IF (total - current - 1) <= last THEN grad_acc ELSE last

\* BackwardHandler.handle, lines 273-274: the divisor of the reduced loss
BackwardDivisor(total, current, grad_acc) ==
    LET last == total % grad_acc
    IN  IF (total - current - 1) >= last THEN grad_acc ELSE last

\* BackwardHandler.handle: the divisor used, 0 when no backward pass is made
BackwardHandler_handle(pctx, sctx) ==
    IF ctx_check(sctx, "loss")
    THEN BackwardDivisor(Getattr(sctx, "total"), Getattr(sctx, "current"),
                         Getattr(pctx, "grad_acc"))
    ELSE 0

\* A bug to compare with: no flush of the trailing group.
UpdateWithoutFlush(total, current, grad_acc) == (current + 1) % grad_acc = 0

\* A bug to compare with: an update after every step, no accumulation.
UpdateEveryStep(total, current, grad_acc) == TRUE

\* OptimizerContainer.handle, lines 288-289
UpdateDue(total, current, grad_acc) ==
    \/ (current + 1) % grad_acc = 0
    \/ current + 1 = total

\* OptimizerContainer.handle: the children (the BackwardHandler) first, then
\* optimizer.step() and optimizer.zero_grad() when an optimizer is set and
\* the update is due.
OptimizerContainer_handle(pctx, sctx) ==
    [divisor |-> BackwardHandler_handle(pctx, sctx),
     update  |-> /\ ctx_check(pctx, "optimizer")
                 /\ UpdateDue(Getattr(sctx, "total"), Getattr(sctx, "current"),
                              Getattr(pctx, "grad_acc"))]

\* HandlerContainer.handle of the iteration container: its children in
\* insertion order.  The result is step_ctx and the history record.
Children(pctx, sctx) ==
    LET afterLoss == LossHandler_handle(pctx, sctx)
        opt == OptimizerContainer_handle(pctx, afterLoss)
    IN  [step_ctx |-> afterLoss,
         record |-> [step |-> Getattr(afterLoss, "current"),
                     total |-> Getattr(afterLoss, "total"),
                     batch |-> Getattr(afterLoss, "batch"),
                     divisor |-> opt.divisor,
                     update |-> opt.update]]

\* with namespace.assign__(**kwargs): body -- entered
Assigned(namespace, kwargs) ==
    ScopedAttrAssign__enter__(ScopedAttrAssign__init__("assign__", kwargs, TRUE),
                              namespace, {})

\* A bug to compare with: a scope that puts nothing back.
LeftKeeping(scope, namespace) == namespace

\* A bug to compare with: a scope that also takes back what the block wrote.
LeftRevertingWrites(scope, namespace) ==
    Delattr(Delattr(ScopedAttrRestore__exit__(scope, namespace, {}, "none").obj,
                    "loss"), "loss_values")

\* ... and left
Left(scope, namespace) == ScopedAttrRestore__exit__(scope, namespace, {}, "none").obj

\* A bug to compare with: the loop left one step late.
StepFinishedLate(current, total) == current >= total

\* StepIterationContainer.handle, line 213: break if finish
StepFinished(current, total) == current + 1 >= total

\* A bug to compare with: the loader taken as it comes.
LoaderNeverMissing(l) == FALSE

\* the loader check of the two containers: is_none_or_nothing(loader)
LoaderMissing(l) == l = NoLoader

\* A bug to compare with: the steps counted from 1.
EnumerateFromOne(l, k) == [current |-> k + 1, batch |-> l[k + 1]]

\* enumerate(loader): the k-th pair (k from 0) is (k, the k-th batch)
Enumerate(l, k) == [current |-> k, batch |-> l[k + 1]]

PipelineCtxs ==
    {[n \in {"grad_acc"} \cup extra |-> IF n = "grad_acc" THEN a ELSE 1] :
        a \in 1..MaxAcc, extra \in SUBSET {"optimizer", "loss_func"}}

InitTrain ==
    /\ IdleLater
    /\ hLog = <<>>
    /\ IdleObserve
    /\ IdleBiList
    /\ IdleScope
    /\ IdleLaunch
    /\ IdleComm
    /\ tMode \in {"IterationContainer", "StepIterationContainer"}
    /\ pipeline_ctx \in PipelineCtxs
    /\ IF tMode = "IterationContainer"
       THEN /\ loader \in {NoLoader} \cup {Batches(n) : n \in 0..MaxTotal}
            /\ iteration_ctx = EmptyFn
       ELSE /\ loader \in {NoLoader} \cup {Batches(n) : n \in 0..MaxLoader}
            /\ iteration_ctx \in [{"start", "total"} -> 0..MaxTotal]
    /\ step_ctx = EmptyFn
    /\ tPc = "idle"
    /\ tK = 0
    /\ tScopes = <<>>
    /\ tTrace = <<>>
    /\ tEpoch = 0
    /\ eTrace = <<>>
    /\ tRaised = "none"
    /\ tBefore = <<step_ctx, iteration_ctx>>

\* IterationContainer.handle up to its loop: without a loader it warns and
\* returns; otherwise step_ctx.total is assigned for the whole loop.
IterationBegin ==
    /\ tMode = "IterationContainer"
    /\ tPc = "idle"
    /\ IF LoaderMissing(loader)
       THEN /\ tPc' = "done"
            /\ UNCHANGED <<step_ctx, tScopes>>
       ELSE \E s \in {Assigned(step_ctx, <<<<"total", Len(loader)>>>>)} :  \* get_len(loader)
                /\ tPc' = "loop"
                /\ step_ctx' = s.obj
                /\ tScopes' = <<s.self>>
    /\ UNCHANGED <<tMode, loader, pipeline_ctx, iteration_ctx, tK, tTrace>>
    /\ UNCHANGED nonTrainVars

\* One turn of "for current, batch in enumerate(loader)": batch and current
\* are assigned for the traversal of the children and put back after it.
IterationStep ==
    /\ tMode = "IterationContainer"
    /\ tPc = "loop"
    /\ tK < Len(loader)
    /\ LET current == Enumerate(loader, tK).current
           batch == Enumerate(loader, tK).batch
       IN  \E s \in {Assigned(step_ctx, <<<<"batch", batch>>, <<"current", current>>>>)} :
           \E body \in {Children(pipeline_ctx, s.obj)} :
               /\ step_ctx' = Left(s.self, body.step_ctx)
               /\ tTrace' = Append(tTrace, body.record)
    /\ tK' = tK + 1
    /\ UNCHANGED <<tMode, loader, pipeline_ctx, iteration_ctx, tPc, tScopes>>
    /\ UNCHANGED nonTrainVars

\* The loader is exhausted: the scope of step_ctx.total is left.
IterationEnd ==
    /\ tMode = "IterationContainer"
    /\ tPc = "loop"
    /\ tK = Len(loader)
    /\ step_ctx' = Left(tScopes[1], step_ctx)
    /\ tScopes' = <<>>
    /\ tPc' = "done"
    /\ UNCHANGED <<tMode, loader, pipeline_ctx, iteration_ctx, tK, tTrace>>
    /\ UNCHANGED nonTrainVars

\* StepIterationContainer.handle up to its loop
StepIterationBegin ==
    /\ tMode = "StepIterationContainer"
    /\ tPc = "idle"
    /\ tPc' = IF LoaderMissing(loader) THEN "done" ELSE "loop"
    /\ UNCHANGED <<tMode, loader, pipeline_ctx, iteration_ctx, step_ctx, tK, tScopes, tTrace>>
    /\ UNCHANGED nonTrainVars

\* One turn of "for current, batch in enumerate(cycle(loader), start=start)":
\* the scopes on iteration_ctx and step_ctx, the children, and the break.
StepIterationStep ==
    /\ tMode = "StepIterationContainer"
    /\ tPc = "loop"
    /\ Len(loader) > 0
    /\ LET total == Getattr(iteration_ctx, "total")
           start == Getattr(iteration_ctx, "start")
           current == start + tK
           batch == loader[(tK % Len(loader)) + 1]
       IN  \E i \in {Assigned(iteration_ctx, <<<<"current", current>>>>)} :
           \E s \in {Assigned(step_ctx, <<<<"batch", batch>>, <<"current", current>>,
                                            <<"total", total>>>>)} :
           \E body \in {Children(pipeline_ctx, s.obj)} :
               /\ step_ctx' = Left(s.self, body.step_ctx)
               /\ iteration_ctx' = Left(i.self, i.obj)
               /\ tTrace' = Append(tTrace, body.record)
               /\ tPc' = IF StepFinished(current, total) THEN "done" ELSE "loop"
    /\ tK' = tK + 1
    /\ UNCHANGED <<tMode, loader, pipeline_ctx, tScopes>>
    /\ UNCHANGED nonTrainVars

\* cycle() of an empty loader yields nothing: the loop ends at once
StepIterationEmpty ==
    /\ tMode = "StepIterationContainer"
    /\ tPc = "loop"
    /\ Len(loader) = 0
    /\ tPc' = "done"
    /\ UNCHANGED <<tMode, loader, pipeline_ctx, iteration_ctx, step_ctx, tK, tScopes, tTrace>>
    /\ UNCHANGED nonTrainVars

NextTrain ==
    \/ IterationBegin
    \/ IterationStep
    \/ IterationEnd
    \/ StepIterationBegin
    \/ StepIterationStep
    \/ StepIterationEmpty

SpecTrain == InitTrain /\ [][NextTrain]_vars

\* handle is one synchronous thread of control: it goes on while it can
SpecTrainFair == SpecTrain /\ WF_vars(NextTrain)

(***************************************************************************)
(* The epoch container.  The tree is the training tree: an                 *)
(* EpochIterationContainer whose child is an IterationContainer with the   *)
(* LossHandler and the OptimizerContainer[BackwardHandler] under it.       *)
(***************************************************************************)
\* The largest iteration_ctx.start and iteration_ctx.total of an epoch run.
MaxEpochs == 2

\* The longest loader of an epoch run.
MaxEpochSteps == 4

\* What the report of a failed check with silent=False does: it raises, or
\* it logs and lets handle go on.
ReportOutcomes == {"raise", "log"}

\* A bug to compare with: a bound that is NOTHING taken for a number.
RangeAcceptsAnything(start, total) == FALSE

\* range(start, total) raises TypeError unless both are integers: Nothing
\* has no __index__
RangeRaises(start, total) == start = NOTHING \/ total = NOTHING

\* A bug to compare with: the range closed at total.
EpochRangeInclusive(start, total) ==
    [i \in 1..(IF total >= start THEN total - start + 1 ELSE 0) |-> start + i - 1]

\* range(start, total) as the sequence of its indices
EpochRange(start, total) ==
    [i \in 1..(IF total > start THEN total - start ELSE 0) |-> start + i - 1]

\* the indices the epoch loop of this run goes through
Epochs == EpochRange(Getattr(iteration_ctx, "start"), Getattr(iteration_ctx, "total"))

\* one entry of the epoch container's history
EpochEvent(event, index) ==
    [event |-> event, index |-> index, current |-> Getattr(iteration_ctx, "current")]

\* the inner IterationContainer has no more batch to take
InnerLoopOver == loader = NoLoader \/ tK = Len(loader)

InitEpoch ==
    /\ IdleLater
    /\ hLog = <<>>
    /\ IdleObserve
    /\ IdleBiList
    /\ IdleScope
    /\ IdleLaunch
    /\ IdleComm
    /\ tMode = "EpochIterationContainer"
    /\ pipeline_ctx \in PipelineCtxs
    /\ loader \in {NoLoader} \cup {Batches(n) : n \in 0..MaxEpochSteps}
    /\ iteration_ctx \in UNION {[d -> 0..MaxEpochs] :
           d \in {{"start"}, {"start", "total"}, {"start", "total", "current"}}}
    /\ step_ctx = EmptyFn
    /\ tPc = "idle"
    /\ tK = 0
    /\ tScopes = <<>>
    /\ tTrace = <<>>
    /\ tEpoch = 0
    /\ eTrace = <<>>
    /\ tRaised = "none"
    /\ tBefore = <<step_ctx, iteration_ctx>>

\* EpochIterationContainer.handle up to its loop: the context check, whose
\* result is not looked at, and the range of the epoch indices.
EpochBegin ==
    /\ tMode = "EpochIterationContainer"
    /\ tPc = "idle"
    /\ \E report \in ReportOutcomes :
           IF ~ctx_check(iteration_ctx, "total") /\ report = "raise"
           THEN tPc' = "raised" /\ tRaised' = "ContextCheckError"
           ELSE IF RangeRaises(Getattr(iteration_ctx, "start"),
                               Getattr(iteration_ctx, "total"))
                THEN tPc' = "raised" /\ tRaised' = "TypeError"
                ELSE tPc' = "epoch" /\ tRaised' = "none"
    /\ eTrace' = Append(eTrace, EpochEvent("begin", NOTHING))
    /\ UNCHANGED <<tMode, loader, pipeline_ctx, iteration_ctx, step_ctx, tK, tScopes,
                   tTrace, tEpoch>>
    /\ UNCHANGED nonEpochVars

\* The next index of the range: iteration_ctx.current is assigned, and the
\* child, IterationContainer.handle, runs up to its own loop.
EpochEnter ==
    /\ tMode = "EpochIterationContainer"
    /\ tPc = "epoch"
    /\ tEpoch < Len(Epochs)
    /\ \E e \in {Assigned(iteration_ctx, <<<<"current", Epochs[tEpoch + 1]>>>>)} :
           /\ iteration_ctx' = e.obj
           /\ eTrace' = Append(eTrace, [event |-> "enter", index |-> Epochs[tEpoch + 1],
                                        current |-> Getattr(e.obj, "current")])
           /\ IF loader = NoLoader
              THEN /\ tScopes' = <<e.self>>
                   /\ UNCHANGED step_ctx
              ELSE \E s \in {Assigned(step_ctx, <<<<"total", Len(loader)>>>>)} :
                       /\ tScopes' = <<e.self, s.self>>
                       /\ step_ctx' = s.obj
    /\ tEpoch' = tEpoch + 1
    /\ tK' = 0
    /\ tPc' = "loop"
    /\ UNCHANGED <<tMode, loader, pipeline_ctx, tTrace, tRaised>>
    /\ UNCHANGED nonEpochVars

\* One turn of the loop of the inner IterationContainer
EpochIterationStep ==
    /\ tMode = "EpochIterationContainer"
    /\ tPc = "loop"
    /\ ~InnerLoopOver
    /\ \E s \in {Assigned(step_ctx, <<<<"batch", loader[tK + 1]>>, <<"current", tK>>>>)} :
       \E body \in {Children(pipeline_ctx, s.obj)} :
           /\ step_ctx' = Left(s.self, body.step_ctx)
           /\ tTrace' = Append(tTrace, body.record @@
                                       [epoch |-> Getattr(iteration_ctx, "current")])
    /\ tK' = tK + 1
    /\ UNCHANGED <<tMode, loader, pipeline_ctx, iteration_ctx, tPc, tScopes>>
    /\ UNCHANGED <<epochVars, nonEpochVars>>

\* The inner container returns and the scope of this epoch is left
EpochLeave ==
    /\ tMode = "EpochIterationContainer"
    /\ tPc = "loop"
    /\ InnerLoopOver
    /\ step_ctx' = IF Len(tScopes) = 2 THEN Left(tScopes[2], step_ctx) ELSE step_ctx
    /\ iteration_ctx' = Left(tScopes[1], iteration_ctx)
    /\ eTrace' = Append(eTrace, EpochEvent("leave", Epochs[tEpoch]))
    /\ tScopes' = <<>>
    /\ tPc' = "epoch"
    /\ UNCHANGED <<tMode, loader, pipeline_ctx, tK, tTrace, tEpoch, tRaised>>
    /\ UNCHANGED nonEpochVars

\* The range is exhausted: handle returns
EpochEnd ==
    /\ tMode = "EpochIterationContainer"
    /\ tPc = "epoch"
    /\ tEpoch = Len(Epochs)
    /\ tPc' = "done"
    /\ eTrace' = Append(eTrace, EpochEvent("end", NOTHING))
    /\ UNCHANGED <<tMode, loader, pipeline_ctx, iteration_ctx, step_ctx, tK, tScopes,
                   tTrace, tEpoch, tRaised>>
    /\ UNCHANGED nonEpochVars

NextEpoch ==
    \/ EpochBegin
    \/ EpochEnter
    \/ EpochIterationStep
    \/ EpochLeave
    \/ EpochEnd

SpecEpoch == InitEpoch /\ [][NextEpoch]_vars

(***************************************************************************)
(* AttrObservable.  The observable keeps two tables in attributes of its   *)
(* own, __observe and __observe_attrs, and its __setattr__ looks           *)
(* __observe up on every assignment, the ones of __init__ included.  The   *)
(* operators work on the record o of the observable's attributes, its two  *)
(* tables and the callbacks invoked so far, and return the new record and  *)
(* what was raised.                                                        *)
(***************************************************************************)
\* The most operations called on one observable.
MaxOps == 3

Observers == {"o1", "o2"}

\* AttrObserver.observe_inspect__: the names of the observer's callbacks
observe_inspect(observer) == IF observer = "o1" THEN {"a", "b"} ELSE {"a"}

\* an empty dict in a table attribute
EmptyTable == [set |-> TRUE, value |-> EmptyFn]

Returned(o) == [o |-> o, raised |-> "none"]

Raised(o, e) == [o |-> o, raised |-> e]

\* all orders in which a loop over a set can go through it
Orders(S) == {q \in [1..Cardinality(S) -> S] : \A i, j \in DOMAIN q : i # j => q[i] # q[j]}

\* list.remove: the first occurrence goes
RemoveFirst(q, x) ==
    LET i == CHOOSE k \in 1..Len(q) : q[k] = x /\ \A m \in 1..(k - 1) : q[m] # x
    IN  SubSeq(q, 1, i - 1) \o SubSeq(q, i + 1, Len(q))

\* notify__: the observer's callback for the name is looked up and called
notify(o, at, observer, name, new, old) ==
    IF name \notin observe_inspect(observer)
    THEN Raised(o, "AttributeError")
    ELSE Returned([o EXCEPT !.calls = Append(@, [at |-> at, observer |-> observer,
                                                 name |-> name, new |-> new, old |-> old])])

\* the loop of __setattr__ over self.__observe[name]
RECURSIVE NotifyAll(_, _, _, _, _, _, _)
NotifyAll(o, at, observers, i, name, new, old) ==
    IF i > Len(observers) THEN Returned(o)
    ELSE LET r == notify(o, at, observers[i], name, new, old)
         IN  IF r.raised # "none" THEN r
             ELSE NotifyAll(r.o, at, observers, i + 1, name, new, old)

\* AttrObservable.__setattr__
AttrObservable__setattr__(o, at, name, value) ==
    IF ~o.observe.set THEN Raised(o, "AttributeError")
    ELSE IF name \notin DOMAIN o.observe.value
         THEN Returned([o EXCEPT !.attrs = ObjectSetattr(@, name, value)])
         ELSE LET old_value == Getattr(o.attrs, name)
                  written == [o EXCEPT !.attrs = ObjectSetattr(@, name, value)]
              IN  IF value # old_value
                  THEN NotifyAll(written, at, o.observe.value[name], 1, name, value, old_value)
                  ELSE Returned(written)

\* AttrObservable.__init__: two assignments, each through __setattr__, which
\* reads __observe before the first of them has set it
AttrObservable__init__(o) ==
    IF ~o.observe.set THEN Raised(o, "AttributeError")
    ELSE Returned([o EXCEPT !.observe = EmptyTable, !.observe_attrs = EmptyTable])

\* AttrObservable.attach_attr__
attach_attr(o, at, observer, name, init) ==
    IF ~o.observe_attrs.set \/ ~o.observe.set THEN Raised(o, "AttributeError")
    ELSE LET attrs0 == IF observer \in DOMAIN o.observe_attrs.value
                       THEN o.observe_attrs.value
                       ELSE ObjectSetattr(o.observe_attrs.value, observer, {})
             observe0 == IF name \in DOMAIN o.observe.value
                         THEN o.observe.value
                         ELSE ObjectSetattr(o.observe.value, name, <<>>)
             o1 == [o EXCEPT
                      !.observe_attrs.value =
                          ObjectSetattr(attrs0, observer, attrs0[observer] \cup {name}),
                      !.observe.value =
                          ObjectSetattr(observe0, name, Append(observe0[name], observer))]
         IN  IF init
             THEN notify(o1, at, observer, name, Getattr(o1.attrs, name), NOTHING)
             ELSE Returned(o1)

\* the loop of attach__ over the names
RECURSIVE AttachLoop(_, _, _, _, _, _)
AttachLoop(o, at, observer, names, i, init) ==
    IF i > Len(names) THEN Returned(o)
    ELSE LET r == attach_attr(o, at, observer, names[i], init)
         IN  IF r.raised # "none" THEN r
             ELSE AttachLoop(r.o, at, observer, names, i + 1, init)

\* the names attach__ goes through: the inspected ones, less the ones the
\* observer is already recorded with
AttachNames(o, observer) ==
    IF observer \in DOMAIN o.observe_attrs.value
    THEN observe_inspect(observer) \ o.observe_attrs.value[observer]
    ELSE observe_inspect(observer)

\* AttrObservable.attach__; order is the order in which the set is iterated
attach(o, at, observer, order, init) ==
    IF ~o.observe_attrs.set THEN Raised(o, "AttributeError")
    ELSE AttachLoop(o, at, observer, order, 1, init)

\* AttrObservable.detach_attr__
detach_attr(o, observer, name) ==
    IF ~o.observe_attrs.set \/ ~o.observe.set THEN Raised(o, "AttributeError")
    ELSE LET attrs0 == o.observe_attrs.value
             attrs1 == IF observer \in DOMAIN attrs0
                       THEN LET names == attrs0[observer] \ {name}
                            IN  IF names = {} THEN Delattr(attrs0, observer)
                                ELSE ObjectSetattr(attrs0, observer, names)
                       ELSE attrs0
             observe0 == o.observe.value
             observe1 == IF name \in DOMAIN observe0
                         THEN LET observers ==
                                      IF observer \in SeqRange(observe0[name])
                                      THEN RemoveFirst(observe0[name], observer)
                                      ELSE observe0[name]
                              IN  IF observers = <<>> THEN Delattr(observe0, name)
                                  ELSE ObjectSetattr(observe0, name, observers)
                         ELSE observe0
         IN  Returned([o EXCEPT !.observe_attrs.value = attrs1, !.observe.value = observe1])

\* the loop of detach__ over a copy of the observer's names
RECURSIVE DetachLoop(_, _, _, _)
DetachLoop(o, observer, names, i) ==
    IF i > Len(names) THEN Returned(o)
    ELSE LET r == detach_attr(o, observer, names[i])
         IN  IF r.raised # "none" THEN r ELSE DetachLoop(r.o, observer, names, i + 1)

\* AttrObservable.detach__
detach(o, observer, order) ==
    IF ~o.observe_attrs.set THEN Raised(o, "AttributeError")
    ELSE IF observer \notin DOMAIN o.observe_attrs.value THEN Returned(o)
         ELSE DetachLoop(o, observer, order, 1)

\* the observable as the operators take it
Observable ==
    [attrs |-> oAttrs, observe |-> oObserve, observe_attrs |-> oObserveAttrs,
     calls |-> oCalls]

\* the observable allocated, before its __init__ has run
InitObserve ==
    /\ IdleLater
    /\ IdleBiList
    /\ IdleScope
    /\ IdleLaunch
    /\ IdleComm
    /\ IdleTrain
    /\ oAttrs = EmptyFn
    /\ oObserve = NoTable
    /\ oObserveAttrs = NoTable
    /\ oCalls = <<>>
    /\ oLog = <<>>

\* the call is over: what it left of the observable, and its entry in the log
Called(op, observer, name, value, init, r) ==
    /\ oAttrs' = r.o.attrs
    /\ oObserve' = r.o.observe
    /\ oObserveAttrs' = r.o.observe_attrs
    /\ oCalls' = r.o.calls
    /\ oLog' = Append(oLog, [op |-> op, observer |-> observer, name |-> name,
                             value |-> value, init |-> init, raised |-> r.raised,
                             before |-> oAttrs, after |-> r.o.attrs])
    /\ UNCHANGED nonObserveVars

\* the index the next call gets in the log
At == Len(oLog) + 1

ObservableInit ==
    /\ Len(oLog) < MaxOps
    /\ Called("__init__", "-", "-", 0, FALSE, AttrObservable__init__(Observable))

Attach(observer, init) ==
    /\ Len(oLog) < MaxOps
    /\ \E order \in Orders(AttachNames(Observable, observer)) :
        Called("attach__", observer, "-", 0, init,
               attach(Observable, At, observer, order, init))

AttachAttr(observer, name, init) ==
    /\ Len(oLog) < MaxOps
    /\ Called("attach_attr__", observer, name, 0, init,
           attach_attr(Observable, At, observer, name, init))

Detach(observer) ==
    /\ Len(oLog) < MaxOps
    /\ \E order \in Orders(IF observer \in DOMAIN oObserveAttrs.value
                        THEN oObserveAttrs.value[observer] ELSE {}) :
        Called("detach__", observer, "-", 0, FALSE, detach(Observable, observer, order))

DetachAttr(observer, name) ==
    /\ Len(oLog) < MaxOps
    /\ Called("detach_attr__", observer, name, 0, FALSE,
           detach_attr(Observable, observer, name))

\* observable.name = value
Assign(name, value) ==
    /\ Len(oLog) < MaxOps
    /\ Called("__setattr__", "-", name, value, FALSE,
           AttrObservable__setattr__(Observable, At, name, value))

NextObserve ==
    \/ ObservableInit
    \/ \E observer \in Observers, init \in BOOLEAN : Attach(observer, init)
    \/ \E observer \in Observers, name \in AttrNames, init \in BOOLEAN :
           AttachAttr(observer, name, init)
    \/ \E observer \in Observers : Detach(observer)
    \/ \E observer \in Observers, name \in AttrNames : DetachAttr(observer, name)
    \/ \E name \in AttrNames, value \in AttrValues : Assign(name, value)

SpecObserve == InitObserve /\ [][NextObserve]_vars

(***************************************************************************)
(* BiList and BiListItem.  A BiList is a MutableSequence: append, extend,  *)
(* pop, remove, clear and reverse are the mixin methods, which work        *)
(* through insert, __setitem__ and __delitem__ of BiList.  The operators   *)
(* work on the record b of all lists, all parent references and whether a  *)
(* warning was logged.  Indices are Python's, from 0.                      *)
(***************************************************************************)
\* The longest list of a container.
MaxLen == 2

Containers == {1, 2}

Items == {"x", "y"}

\* the lists a caller passes: up to two items, repeats included
ItemLists == UNION {[1..n -> Items] : n \in 0..2}

\* list.insert(index, x)
ListInsert(q, index, x) == SubSeq(q, 1, index) \o <<x>> \o SubSeq(q, index + 1, Len(q))

\* q[lo:hi] = values
ListSetSlice(q, lo, hi, values) == SubSeq(q, 1, lo) \o values \o SubSeq(q, hi + 1, Len(q))

\* A bug to compare with: the first parent is kept, without a warning.
SetParentKeepsFirst(b, item, c) ==
    IF b.parent[item] = NOTHING THEN [b EXCEPT !.parent[item] = c] ELSE b

\* BiListItem.set_parent__
set_parent(b, item, c) ==
    LET prev_parent == b.parent[item]
    IN  [b EXCEPT !.warned = @ \/ (prev_parent # NOTHING /\ c # prev_parent),
                  !.parent[item] = c]

\* BiListItem.del_parent__
del_parent(b, item) == [b EXCEPT !.parent[item] = NOTHING]

\* for item in items: item.set_parent__(self)
RECURSIVE SetParents(_, _, _, _)
SetParents(b, items, i, c) ==
    IF i > Len(items) THEN b ELSE SetParents(set_parent(b, items[i], c), items, i + 1, c)

\* for item in items: item.del_parent__()
RECURSIVE DelParents(_, _, _)
DelParents(b, items, i) ==
    IF i > Len(items) THEN b ELSE DelParents(del_parent(b, items[i]), items, i + 1)

\* BiList.insert
BiList_insert(b, c, index, item) ==
    [set_parent(b, item, c) EXCEPT !.lists[c] = ListInsert(@, index, item)]

\* BiList.__setitem__ with an index
BiList__setitem__(b, c, index, item) ==
    [set_parent(del_parent(b, b.lists[c][index + 1]), item, c)
        EXCEPT !.lists[c] = ListSetSlice(@, index, index + 1, <<item>>)]

\* BiList.__setitem__ with the slice lo:hi and a list of values
BiList__setslice__(b, c, lo, hi, values) ==
    [SetParents(DelParents(b, SubSeq(b.lists[c], lo + 1, hi), 1), values, 1, c)
        EXCEPT !.lists[c] = ListSetSlice(@, lo, hi, values)]

\* BiList.__delitem__ with the slice lo:hi; an index i is the slice i:i+1
BiList__delitem__(b, c, lo, hi) ==
    [DelParents(b, SubSeq(b.lists[c], lo + 1, hi), 1)
        EXCEPT !.lists[c] = ListSetSlice(@, lo, hi, <<>>)]

\* BiList.set_list__
BiList_set_list(b, c, new) ==
    [SetParents(DelParents(b, b.lists[c], 1), new, 1, c) EXCEPT !.lists[c] = new]

\* MutableSequence.append: self.insert(len(self), value)
append(b, c, item) == BiList_insert(b, c, Len(b.lists[c]), item)

\* MutableSequence.extend: for v in values: self.append(v)
RECURSIVE extend(_, _, _, _)
extend(b, c, values, i) ==
    IF i > Len(values) THEN b ELSE extend(append(b, c, values[i]), c, values, i + 1)

\* MutableSequence.pop(index): v = self[index]; del self[index]
pop(b, c, index) == BiList__delitem__(b, c, index, index + 1)

\* MutableSequence.remove(value): del self[self.index(value)]
remove(b, c, item) ==
    LET q == b.lists[c]
        i == CHOOSE k \in 1..Len(q) : q[k] = item /\ \A m \in 1..(k - 1) : q[m] # item
    IN  BiList__delitem__(b, c, i - 1, i)

\* MutableSequence.clear: pop() until the list is empty
RECURSIVE clear(_, _)
clear(b, c) ==
    IF b.lists[c] = <<>> THEN b ELSE clear(pop(b, c, Len(b.lists[c]) - 1), c)

\* MutableSequence.reverse:
\*     for i in range(n//2): self[i], self[n-i-1] = self[n-i-1], self[i]
RECURSIVE reverse(_, _, _)
reverse(b, c, i) ==
    LET n == Len(b.lists[c])
    IN  IF i >= n \div 2 THEN b
        ELSE LET hi == b.lists[c][n - i]
                 lo == b.lists[c][i + 1]
                 first == BiList__setitem__(b, c, i, hi)
             IN  reverse(BiList__setitem__(first, c, n - i - 1, lo), c, i + 1)

\* the containers and items as the operators take them, no warning yet
BiLists == [lists |-> lists, parent |-> parent, warned |-> FALSE]

\* the items are added for the first time: none is a member of a list or
\* has a parent, and none comes twice
Fresh(values) ==
    /\ \A i \in 1..Len(values) :
           /\ parent[values[i]] = NOTHING
           /\ \A c \in Containers : values[i] \notin SeqRange(lists[c])
    /\ \A i, j \in 1..Len(values) : i # j => values[i] # values[j]

\* two empty containers and two items constructed
InitBiList ==
    /\ IdleLater
    /\ IdleObserve
    /\ IdleScope
    /\ IdleLaunch
    /\ IdleComm
    /\ IdleTrain
    /\ lists = [c \in Containers |-> <<>>]
    /\ parent = [i \in Items |-> NOTHING]
    /\ bLast = [op |-> "none", c |-> 0, item |-> "-", prev |-> NOTHING, warned |-> FALSE]
    /\ bClean = TRUE

\* the operation is over: what it left, and the history of it
Did(op, c, item, added, r) ==
    /\ Len(r.lists[c]) <= MaxLen
    /\ lists' = r.lists
    /\ parent' = r.parent
    /\ bLast' = [op |-> op, c |-> c, item |-> item,
                 prev |-> IF item \in Items THEN parent[item] ELSE NOTHING,
                 warned |-> r.warned]
    /\ bClean' = (bClean /\ Fresh(added))
    /\ UNCHANGED nonBiVars

Insert(c, index, item) ==
    /\ index \in 0..Len(lists[c])
    /\ Did("insert", c, item, <<item>>, BiList_insert(BiLists, c, index, item))

AppendItem(c, item) ==
    /\ Len(lists[c]) < MaxLen
    /\ Did("append", c, item, <<item>>, append(BiLists, c, item))

\* extend, and the construction BiList(values), which extends the empty list
Extend(c, values) ==
    /\ Len(lists[c]) + Len(values) <= MaxLen
    /\ Did("extend", c, "-", values, extend(BiLists, c, values, 1))

SetItem(c, index, item) ==
    /\ index \in 0..(Len(lists[c]) - 1)
    /\ Did("setitem", c, "-", <<item>>, BiList__setitem__(BiLists, c, index, item))

SetSlice(c, lo, hi, values) ==
    /\ lo \in 0..Len(lists[c])
    /\ hi \in lo..Len(lists[c])
    /\ Did("setslice", c, "-", values, BiList__setslice__(BiLists, c, lo, hi, values))

DelItem(c, index) ==
    /\ index \in 0..(Len(lists[c]) - 1)
    /\ Did("delitem", c, "-", <<>>, BiList__delitem__(BiLists, c, index, index + 1))

DelSlice(c, lo, hi) ==
    /\ lo \in 0..Len(lists[c])
    /\ hi \in lo..Len(lists[c])
    /\ Did("delslice", c, "-", <<>>, BiList__delitem__(BiLists, c, lo, hi))

Pop(c) ==
    /\ lists[c] # <<>>
    /\ Did("pop", c, "-", <<>>, pop(BiLists, c, Len(lists[c]) - 1))

Remove(c, item) ==
    /\ item \in SeqRange(lists[c])
    /\ Did("remove", c, "-", <<>>, remove(BiLists, c, item))

Clear(c) ==
    /\ lists[c] # <<>>
    /\ Did("clear", c, "-", <<>>, clear(BiLists, c))

Reverse(c) ==
    /\ lists[c] # <<>>
    /\ Did("reverse", c, "-", <<>>, reverse(BiLists, c, 0))

SetList(c, values) ==
    /\ Len(values) <= MaxLen
    /\ Did("set_list__", c, "-", values, BiList_set_list(BiLists, c, values))

NextBiList ==
    \/ \E c \in Containers, index \in 0..MaxLen, item \in Items : Insert(c, index, item)
    \/ \E c \in Containers, item \in Items : AppendItem(c, item)
    \/ \E c \in Containers, values \in ItemLists : Extend(c, values)
    \/ \E c \in Containers, index \in 0..MaxLen, item \in Items : SetItem(c, index, item)
    \/ \E c \in Containers, lo, hi \in 0..MaxLen, values \in ItemLists :
           SetSlice(c, lo, hi, values)
    \/ \E c \in Containers, index \in 0..MaxLen : DelItem(c, index)
    \/ \E c \in Containers, lo, hi \in 0..MaxLen : DelSlice(c, lo, hi)
    \/ \E c \in Containers : Pop(c)
    \/ \E c \in Containers, item \in Items : Remove(c, item)
    \/ \E c \in Containers : Clear(c)
    \/ \E c \in Containers : Reverse(c)
    \/ \E c \in Containers, values \in ItemLists : SetList(c, values)

SpecBiList == InitBiList /\ [][NextBiList]_vars

(***************************************************************************)
(* The handlers called one by one on a context: LossHandler,               *)
(* BackwardHandler, OptimizerContainer (its child is a BackwardHandler),   *)
(* LRScheduleHandler and MetricHandler.  What a handler calls outside the  *)
(* context (the loss function, backward(), the optimizer, the scheduler,   *)
(* the metrics callable) is written to the history in the order of the     *)
(* calls.                                                                  *)
(***************************************************************************)
\* The most handlers called on one context.
MaxHandled == 2

\* The largest step_ctx.total of a context the handlers are called on.
MaxSteps == 2

\* what a handler did: the step_ctx it leaves, its calls in order, the
\* exception it ends with and the handler whose code raised it
Outcome(sctx, calls, raised, by) ==
    [step_ctx |-> sctx, calls |-> calls, raised |-> raised, by |-> by]

\* LossHandler.handle
LossHandler_run(pctx, sctx) ==
    Outcome(LossHandler_handle(pctx, sctx),
            IF ctx_check(pctx, "loss_func") THEN <<"loss_func">> ELSE <<>>,
            "none", "none")

\* NOTHING % grad_acc and NOTHING >= last raise TypeError: Nothing defines
\* neither __mod__ nor an ordering
BackwardRaises(sctx) ==
    Getattr(sctx, "total") = NOTHING \/ Getattr(sctx, "current") = NOTHING

\* BackwardHandler.handle
BackwardHandler_run(pctx, sctx) ==
    IF ~ctx_check(sctx, "loss")
    THEN Outcome(sctx, <<>>, "none", "none")
    ELSE IF BackwardRaises(sctx)
         THEN Outcome(sctx, <<>>, "TypeError", "BackwardHandler")
         ELSE Outcome(sctx, <<"loss_reduction", "backward">>, "none", "none")

\* (NOTHING + 1) % grad_acc raises TypeError
UpdateRaises(pctx, sctx) ==
    ctx_check(pctx, "optimizer") /\ Getattr(sctx, "current") = NOTHING

\* what OptimizerContainer.handle does after its children
UpdateCalls(pctx, sctx) ==
    <<"update condition">> \o
        (IF OptimizerContainer_handle(pctx, sctx).update
         THEN <<"optimizer.step", "optimizer.zero_grad">>
         ELSE <<>>)

\* A bug to compare with: the update made before the children are run, and
\* the gradients reset before the optimizer's step.
CallsUpdateFirst(pctx, sctx) ==
    LET child == BackwardHandler_run(pctx, sctx)
        own == UpdateCalls(pctx, sctx)
    IN  Outcome(sctx,
                (IF Len(own) = 3 THEN <<own[1], own[3], own[2]>> ELSE own) \o
                    <<"BackwardHandler.handle">> \o child.calls,
                "none", "none")

\* OptimizerContainer.handle: super().handle(ctx) runs the child, then the
\* condition is evaluated and the optimizer called
OptimizerContainer_run(pctx, sctx) ==
    LET child == BackwardHandler_run(pctx, sctx)
        ran == <<"BackwardHandler.handle">> \o child.calls
    IN  IF child.raised # "none"
        THEN Outcome(child.step_ctx, ran, child.raised, child.by)
        ELSE IF UpdateRaises(pctx, child.step_ctx)
             THEN Outcome(child.step_ctx, ran \o <<"update condition">>,
                          "TypeError", "OptimizerContainer")
             ELSE Outcome(child.step_ctx, ran \o UpdateCalls(pctx, child.step_ctx),
                          "none", "none")

\* LRScheduleHandler.handle
LRScheduleHandler_run(pctx, sctx) ==
    Outcome(sctx,
            IF ctx_check(pctx, "lr_scheduler") THEN <<"lr_scheduler.step">> ELSE <<>>,
            "none", "none")

\* MetricHandler.handle: step_ctx is a namespace of every context, so the
\* first check passes; the metrics are the constant 1
MetricHandler_run(pctx, sctx) ==
    IF ctx_check(pctx, "metrics")
    THEN Outcome(ObjectSetattr(sctx, "metrics", 1), <<"metrics">>, "none", "none")
    ELSE Outcome(sctx, <<>>, "none", "none")

\* the contexts the handlers are called on: every optional collaborator set
\* or not, step_ctx with or without total, current and loss
HandledPipelines ==
    {[n \in {"grad_acc"} \cup extra |-> IF n = "grad_acc" THEN a ELSE 1] :
        a \in 1..MaxAcc,
        extra \in SUBSET {"optimizer", "loss_func", "lr_scheduler", "metrics"}}

HandledSteps ==
    {[n \in d |-> IF n = "total" THEN t ELSE IF n = "current" THEN c ELSE 1] :
        d \in SUBSET {"total", "current", "loss"},
        t \in 1..MaxSteps, c \in 0..(MaxSteps - 1)}

InitHandle ==
    /\ IdleLater
    /\ IdleObserve
    /\ IdleBiList
    /\ IdleScope
    /\ IdleLaunch
    /\ IdleComm
    /\ tMode = "handlers"
    /\ loader = <<>>
    /\ pipeline_ctx \in HandledPipelines
    /\ iteration_ctx = EmptyFn
    /\ step_ctx \in HandledSteps
    /\ tPc = "idle"
    /\ tK = 0
    /\ tScopes = <<>>
    /\ tTrace = <<>>
    /\ tEpoch = 0
    /\ eTrace = <<>>
    /\ tRaised = "none"
    /\ tBefore = <<step_ctx, iteration_ctx>>
    /\ hLog = <<>>

\* handler.handle(ctx) called: the context it leaves and the history entry
Handled(handler, r) ==
    /\ step_ctx' = r.step_ctx
    /\ hLog' = Append(hLog, [handler |-> handler, before |-> step_ctx,
                             after |-> r.step_ctx, calls |-> r.calls,
                             raised |-> r.raised, by |-> r.by])
    /\ UNCHANGED <<tMode, loader, pipeline_ctx, iteration_ctx, tPc, tK, tScopes, tTrace,
                   tBefore>>
    /\ UNCHANGED nonHandleVars

LossHandle ==
    /\ tMode = "handlers"
    /\ Len(hLog) < MaxHandled
    /\ Handled("LossHandler", LossHandler_run(pipeline_ctx, step_ctx))

BackwardHandle ==
    /\ tMode = "handlers"
    /\ Len(hLog) < MaxHandled
    /\ Handled("BackwardHandler", BackwardHandler_run(pipeline_ctx, step_ctx))

OptimizerHandle ==
    /\ tMode = "handlers"
    /\ Len(hLog) < MaxHandled
    /\ Handled("OptimizerContainer", OptimizerContainer_run(pipeline_ctx, step_ctx))

LRScheduleHandle ==
    /\ tMode = "handlers"
    /\ Len(hLog) < MaxHandled
    /\ Handled("LRScheduleHandler", LRScheduleHandler_run(pipeline_ctx, step_ctx))

MetricHandle ==
    /\ tMode = "handlers"
    /\ Len(hLog) < MaxHandled
    /\ Handled("MetricHandler", MetricHandler_run(pipeline_ctx, step_ctx))

NextHandle ==
    \/ LossHandle
    \/ BackwardHandle
    \/ OptimizerHandle
    \/ LRScheduleHandle
    \/ MetricHandle

SpecHandle == InitHandle /\ [][NextHandle]_vars

(***************************************************************************)
(* A child handler that raises.  The containers are run as above, on       *)
(* contexts that may hold earlier values of the scoped attributes, and at  *)
(* any traversal a child may raise: the LossHandler before it has written  *)
(* anything, or the OptimizerContainer after the LossHandler has written   *)
(* the loss.  The exception leaves the "with" statements around the        *)
(* traversal innermost first; progress_context__, one of them, is an       *)
(* observer of the loop and lets the exception through.                    *)
(***************************************************************************)
\* The longest loader, and the largest start and total, of a run in which
\* a child may raise.
MaxFaultSteps == 2

\* progress_context__ left by the exception e: the progress display is
\* closed and e goes on
ProgressExit(e) == e

\* the children that may raise
FaultyChildren == {"LossHandler", "OptimizerContainer"}

\* step_ctx when the child raises: the children before it have run
AtRaise(child, pctx, sctx) ==
    IF child = "LossHandler" THEN sctx ELSE LossHandler_handle(pctx, sctx)

\* A bug to compare with: only the innermost scope left on an exception.
RECURSIVE UnwoundInnermostOnly(_, _, _)
UnwoundInnermostOnly(held, namespace, e) ==
    IF held = <<>> THEN [obj |-> namespace, exc |-> e]
    ELSE LET r == ScopedAttrRestore__exit__(held[Len(held)], namespace, {}, e)
         IN  [obj |-> r.obj, exc |-> IF r.raises # "none" THEN r.raises ELSE e]

\* the exception e leaves the scopes held on one namespace, innermost
\* first: each __exit__ runs and returns None, so e goes on
RECURSIVE Unwound(_, _, _)
Unwound(held, namespace, e) ==
    IF held = <<>> THEN [obj |-> namespace, exc |-> e]
    ELSE LET r == ScopedAttrRestore__exit__(held[Len(held)], namespace, {}, e)
         IN  Unwound(Front(held), r.obj, IF r.raises # "none" THEN r.raises ELSE e)

\* earlier values of the attributes of step_ctx: none, only current, the
\* scoped ones, or the scoped ones and a loss
EarlierSteps ==
    {[n \in d |-> 50] : d \in {{}, {"current"}, {"total", "current", "batch"},
                                {"total", "current", "batch", "loss"}}}

InitFault ==
    /\ IdleLater
    /\ IdleObserve
    /\ IdleBiList
    /\ IdleScope
    /\ IdleLaunch
    /\ IdleComm
    /\ tMode \in {"IterationContainer", "StepIterationContainer", "EpochIterationContainer"}
    /\ pipeline_ctx \in {p \in PipelineCtxs : p["grad_acc"] = 1}
    /\ loader \in {NoLoader} \cup {Batches(n) : n \in 0..MaxFaultSteps}
    /\ \E earlier \in {EmptyFn, [n \in {"current"} |-> 50]} :
           iteration_ctx \in
               IF tMode = "IterationContainer" THEN {earlier}
               ELSE {earlier @@ b : b \in [{"start", "total"} -> 0..MaxFaultSteps]}
    /\ step_ctx \in EarlierSteps
    /\ tPc = "idle"
    /\ tK = 0
    /\ tScopes = <<>>
    /\ tTrace = <<>>
    /\ tEpoch = 0
    /\ eTrace = <<>>
    /\ tRaised = "none"
    /\ tBefore = <<step_ctx, iteration_ctx>>
    /\ hLog = <<>>

\* A child raises in a traversal of IterationContainer.handle: the scope of
\* batch and current is left, then the scope of total.
IterationStepRaise ==
    /\ tMode = "IterationContainer"
    /\ tPc = "loop"
    /\ tK < Len(loader)
    /\ \E child \in FaultyChildren :
       \E s \in {Assigned(step_ctx, <<<<"batch", loader[tK + 1]>>, <<"current", tK>>>>)} :
       \E u \in {Unwound(<<tScopes[1], s.self>>, AtRaise(child, pipeline_ctx, s.obj),
                         "ChildError")} :
           /\ step_ctx' = u.obj
           /\ tRaised' = ProgressExit(u.exc)
    /\ eTrace' = Append(eTrace, EpochEvent("raise", tK))
    /\ tScopes' = <<>>
    /\ tPc' = "raised"
    /\ UNCHANGED <<tMode, loader, pipeline_ctx, iteration_ctx, tK, tTrace, tEpoch>>
    /\ UNCHANGED nonEpochVars

\* A child raises in a traversal of StepIterationContainer.handle: the
\* scope on step_ctx is left, then the scope on iteration_ctx.
StepIterationStepRaise ==
    /\ tMode = "StepIterationContainer"
    /\ tPc = "loop"
    /\ Len(loader) > 0
    /\ LET total == Getattr(iteration_ctx, "total")
           current == Getattr(iteration_ctx, "start") + tK
           batch == loader[(tK % Len(loader)) + 1]
       IN  \E child \in FaultyChildren :
           \E i \in {Assigned(iteration_ctx, <<<<"current", current>>>>)} :
           \E s \in {Assigned(step_ctx, <<<<"batch", batch>>, <<"current", current>>,
                                            <<"total", total>>>>)} :
           \E u \in {Unwound(<<s.self>>, AtRaise(child, pipeline_ctx, s.obj), "ChildError")} :
           \E v \in {Unwound(<<i.self>>, i.obj, u.exc)} :
               /\ step_ctx' = u.obj
               /\ iteration_ctx' = v.obj
               /\ tRaised' = ProgressExit(v.exc)
               /\ eTrace' = Append(eTrace, EpochEvent("raise", current))
    /\ tPc' = "raised"
    /\ UNCHANGED <<tMode, loader, pipeline_ctx, tK, tScopes, tTrace, tEpoch>>
    /\ UNCHANGED nonEpochVars

\* A child raises in a traversal of the IterationContainer under the
\* EpochIterationContainer: the two scopes on step_ctx are left, then the
\* scope of the epoch on iteration_ctx.
EpochIterationStepRaise ==
    /\ tMode = "EpochIterationContainer"
    /\ tPc = "loop"
    /\ ~InnerLoopOver
    /\ \E child \in FaultyChildren :
       \E s \in {Assigned(step_ctx, <<<<"batch", loader[tK + 1]>>, <<"current", tK>>>>)} :
       \E u \in {Unwound(<<tScopes[2], s.self>>, AtRaise(child, pipeline_ctx, s.obj),
                         "ChildError")} :
       \E v \in {Unwound(<<tScopes[1]>>, iteration_ctx, u.exc)} :
           /\ step_ctx' = u.obj
           /\ iteration_ctx' = v.obj
           /\ tRaised' = ProgressExit(ProgressExit(v.exc))
    /\ eTrace' = Append(eTrace, EpochEvent("raise", tK))
    /\ tScopes' = <<>>
    /\ tPc' = "raised"
    /\ UNCHANGED <<tMode, loader, pipeline_ctx, tK, tTrace, tEpoch>>
    /\ UNCHANGED nonEpochVars

NextFault ==
    \/ IterationBegin
    \/ IterationStep
    \/ IterationEnd
    \/ StepIterationBegin
    \/ StepIterationStep
    \/ StepIterationEmpty
    \/ EpochBegin
    \/ EpochEnter
    \/ EpochIterationStep
    \/ EpochLeave
    \/ EpochEnd
    \/ IterationStepRaise
    \/ StepIterationStepRaise
    \/ EpochIterationStepRaise

SpecFault == InitFault /\ [][NextFault]_vars

(***************************************************************************)
(* Singleton: several threads call the constructor of a decorated class.   *)
(* The decorator of util/__init__.py keeps the instance in a dict under    *)
(* one threading.Lock; the decorator of utils/decorators.py keeps it in a  *)
(* closure variable under a threading.Lock and a multiprocessing.Lock,     *)
(* taken in that order.  A thread runs one bytecode-level step at a time;  *)
(* the instance made by the class is numbered by the order of creation.    *)
(***************************************************************************)
\* The number of threads that call the constructor.
MaxThreads == 3

Threads == 1..MaxThreads

SingletonImpls == {"util", "decorators"}

\* the locks a call takes, in the order it takes them
LocksOf(impl) == IF impl = "util" THEN <<"_lock">> ELSE <<"t_lock", "p_lock">>

\* where a call is, and the instance it has made but not stored yet
Frame(at, new) == [at |-> at, new |-> new]

\* A bug to compare with: no second check under the lock.
NoSecondCheck(instance) == TRUE

\* the second check, under the lock: `cls not in _instance` /
\* `is_none_or_nothing(_instance) is True`
StillMissing(instance) == instance = NOTHING

InitSingleton ==
    /\ IdleTransport
    /\ IdleBuild
    /\ IdleNamespace
    /\ IdleObserve
    /\ IdleBiList
    /\ IdleScope
    /\ IdleLaunch
    /\ IdleComm
    /\ IdleTrain
    /\ sImpl \in SingletonImpls
    /\ sPc = [t \in Threads |-> Frame("call", NOTHING)]
    /\ sLocks = [l \in {"_lock", "t_lock", "p_lock"} |-> 0]
    /\ sInstance = NOTHING
    /\ sMade = 0
    /\ sGot = [t \in Threads |-> NOTHING]

\* the first check, without the lock
FirstCheck(t) ==
    /\ sPc[t].at = "call"
    /\ sPc' = [sPc EXCEPT ![t] = IF sInstance = NOTHING
                                  THEN Frame("acquire", 1) ELSE Frame("return", NOTHING)]
    /\ UNCHANGED <<sImpl, sLocks, sInstance, sMade, sGot>>
    /\ UNCHANGED nonSingletonVars

\* with _lock: / with t_lock, p_lock: -- the next lock is taken when free
Acquire(t) ==
    /\ sPc[t].at = "acquire"
    /\ LET held == LocksOf(sImpl)
           l == held[sPc[t].new]
       IN  /\ sLocks[l] = 0
           /\ sLocks' = [sLocks EXCEPT ![l] = t]
           /\ sPc' = [sPc EXCEPT ![t] = IF sPc[t].new < Len(held)
                                         THEN Frame("acquire", sPc[t].new + 1)
                                         ELSE Frame("recheck", NOTHING)]
    /\ UNCHANGED <<sImpl, sInstance, sMade, sGot>>
    /\ UNCHANGED nonSingletonVars

\* the second check, under the lock
SecondCheck(t) ==
    /\ sPc[t].at = "recheck"
    /\ sPc' = [sPc EXCEPT ![t] = IF StillMissing(sInstance)
                                  THEN Frame("construct", NOTHING)
                                  ELSE Frame("release", Len(LocksOf(sImpl)))]
    /\ UNCHANGED <<sImpl, sLocks, sInstance, sMade, sGot>>
    /\ UNCHANGED nonSingletonVars

\* cls(*args, **kwargs) / new_cls_func(*args, **kwargs): a new instance
Construct(t) ==
    /\ sPc[t].at = "construct"
    /\ sMade' = sMade + 1
    /\ sPc' = [sPc EXCEPT ![t] = Frame("store", sMade + 1)]
    /\ UNCHANGED <<sImpl, sLocks, sInstance, sGot>>
    /\ UNCHANGED nonSingletonVars

\* _instance[cls] = ... / _instance = ...
Store(t) ==
    /\ sPc[t].at = "store"
    /\ sInstance' = sPc[t].new
    /\ sPc' = [sPc EXCEPT ![t] = Frame("release", Len(LocksOf(sImpl)))]
    /\ UNCHANGED <<sImpl, sLocks, sMade, sGot>>
    /\ UNCHANGED nonSingletonVars

\* the with statement is left: the locks are released, the last taken first
Release(t) ==
    /\ sPc[t].at = "release"
    /\ sLocks' = [sLocks EXCEPT ![LocksOf(sImpl)[sPc[t].new]] = 0]
    /\ sPc' = [sPc EXCEPT ![t] = IF sPc[t].new > 1
                                  THEN Frame("release", sPc[t].new - 1)
                                  ELSE Frame("return", NOTHING)]
    /\ UNCHANGED <<sImpl, sInstance, sMade, sGot>>
    /\ UNCHANGED nonSingletonVars

\* return _instance[cls] / return _instance
Return(t) ==
    /\ sPc[t].at = "return"
    /\ sGot' = [sGot EXCEPT ![t] = sInstance]
    /\ sPc' = [sPc EXCEPT ![t] = Frame("done", NOTHING)]
    /\ UNCHANGED <<sImpl, sLocks, sInstance, sMade>>
    /\ UNCHANGED nonSingletonVars

NextSingleton ==
    \/ \E t \in Threads : FirstCheck(t)
    \/ \E t \in Threads : Acquire(t)
    \/ \E t \in Threads : SecondCheck(t)
    \/ \E t \in Threads : Construct(t)
    \/ \E t \in Threads : Store(t)
    \/ \E t \in Threads : Release(t)
    \/ \E t \in Threads : Return(t)

SpecSingleton == InitSingleton /\ [][NextSingleton]_vars

(***************************************************************************)
(* Base namespaces.  A namespace tree is a function from the paths that    *)
(* are set (sequences of attribute names) to the kind of value set there:  *)
(* another Base, a dict, None, 0, an empty list, or NOTHING itself.  Only  *)
(* a Base or a dict has anything below it.                                 *)
(***************************************************************************)
\* The deepest nesting of namespaces.
MaxPath == 2

\* The most attributes set in one tree.
MaxSet == 2

\* the kinds of value an attribute is set to
Kinds == {"Base", "dict", "None", "0", "[]", "NOTHING"}

\* the sequences of 1..n attribute names
Paths(n) == UNION {[1..k -> AttrNames] : k \in 1..n}

\* the namespace trees: what is below a path is set only in a Base or a dict
Trees ==
    UNION {{tree \in [S -> Kinds] :
               \A p \in S : Len(p) > 1 => tree[Front(p)] \in {"Base", "dict"}} :
           S \in {S \in SUBSET Paths(MaxPath) :
                     /\ Cardinality(S) <= MaxSet
                     /\ \A p \in S : Len(p) > 1 => Front(p) \in S}}

\* Base.__getattr__: called when the attribute is not set; returns NOTHING
Base__getattr__(name) == "NOTHING"

\* getattr(namespace, name) on the Base at path p
BaseGetattr(tree, p, name) ==
    IF Append(p, name) \in DOMAIN tree THEN tree[Append(p, name)]
    ELSE Base__getattr__(name)

\* temp[attr]: Base.__getitem__ is getattr; a dict raises KeyError for a
\* missing key; None, 0 and a list raise TypeError for a string
GetItem(tree, p, kind, name) ==
    IF kind = "Base" THEN [value |-> BaseGetattr(tree, p, name), raised |-> "none"]
    ELSE IF kind = "dict"
         THEN IF Append(p, name) \in DOMAIN tree
              THEN [value |-> tree[Append(p, name)], raised |-> "none"]
              ELSE [value |-> "-", raised |-> "KeyError"]
         ELSE [value |-> "-", raised |-> "TypeError"]

\* A bug to compare with: `if not temp` for `if temp is NOTHING`.
IsFalsy(kind) == kind \in {"NOTHING", "None", "0", "[]"}

\* temp is NOTHING
IsNothing(kind) == kind = "NOTHING"

\* the loop of Base.check__ from segment i on, temp being the value of the
\* given kind at path p; an exception of temp[attr] is logged and ends the
\* check with False
RECURSIVE CheckLoop(_, _, _, _, _)
CheckLoop(tree, p, kind, attrs, i) ==
    IF i > Len(attrs) THEN TRUE
    ELSE LET got == GetItem(tree, p, kind, attrs[i])
         IN  IF got.raised # "none" THEN FALSE
             ELSE IF IsNothing(got.value) THEN FALSE
                  ELSE CheckLoop(tree, Append(p, attrs[i]), got.value, attrs, i + 1)

\* Base.check__(item), item.split('.') being attrs
Base_check(tree, attrs) == CheckLoop(tree, <<>>, "Base", attrs, 1)

NoRead == [op |-> "none", value |-> "-", result |-> FALSE, raised |-> "none"]

InitNamespace ==
    /\ IdleTransport
    /\ IdleBuild
    /\ IdleSingleton
    /\ IdleObserve
    /\ IdleBiList
    /\ IdleScope
    /\ IdleLaunch
    /\ IdleComm
    /\ IdleTrain
    /\ nsAttrs \in Trees
    /\ nsItem \in Paths(MaxPath + 1)
    /\ nsResult = NoRead

\* namespace.<name> read, for the first segment of the item
ReadAttr ==
    /\ nsResult.op = "none"
    /\ nsResult' = [op |-> "getattr", value |-> BaseGetattr(nsAttrs, <<>>, nsItem[1]),
                    result |-> FALSE, raised |-> "none"]
    /\ UNCHANGED <<nsAttrs, nsItem>>
    /\ UNCHANGED nonNsVars

\* namespace.check__(item)
Check ==
    /\ nsResult.op = "none"
    /\ nsResult' = [op |-> "check__", value |-> "-",
                    result |-> Base_check(nsAttrs, nsItem), raised |-> "none"]
    /\ UNCHANGED <<nsAttrs, nsItem>>
    /\ UNCHANGED nonNsVars

NextNamespace ==
    \/ ReadAttr
    \/ Check

SpecNamespace == InitNamespace /\ [][NextNamespace]_vars

(***************************************************************************)
(* The object collectives over a blocking transport.  Each rank of the     *)
(* group is a process; a rank that makes the call enters the transport     *)
(* collectives of its object collective one after the other, and a         *)
(* transport collective (dist.all_gather, dist.gather, dist.broadcast,     *)
(* dist.scatter) hands a rank its result and lets it go on once every rank *)
(* of the group has entered it.  Only what decides the shapes travels      *)
(* here: the sizes.  A rank that is gated out makes no call at all.        *)
(***************************************************************************)
ObjectCollectives ==
    {"all_gather_object", "gather_object", "broadcast_object", "scatter_object"}

\* the objects of the calls: one of each pickled size
SizedObjects == {o \in Objects : \A i \in DOMAIN o : o[i] = "x"}

\* the transport collectives one call of the object collective makes
NumCollectives(kind) == IF kind = "scatter_object" THEN 3 ELSE 2

\* The next transport collective of a rank that has left the collectives
\* whose results are in heard: its kind, the numel of the tensor the rank
\* passes, and the value the rank contributes.
TransportCall(kind, rank, root, objs, heard) ==
    LET k == Len(heard) + 1
        own == object_to_tensor(objs[rank])
        local_sizes == [i \in CommRanks |-> object_to_tensor(objs[i]).size]
    IN  CASE kind \in {"all_gather_object", "gather_object"} /\ k = 1 ->
                \* _all_gather_size: dist.all_gather(size_list, size_tensor)
                [op |-> "all_gather", numel |-> 1, sends |-> own.size]
          [] kind \in {"all_gather_object", "gather_object"} /\ k = 2 ->
                \* object_tensor.resize_(max_object_size), then the payload
                LET object_tensor == Resize(own.tensor, MaxObjectSize(heard[1]), "0")
                IN  [op |-> IF kind = "gather_object" THEN "gather" ELSE "all_gather",
                     numel |-> Len(object_tensor), sends |-> Len(object_tensor)]
          [] kind = "broadcast_object" /\ k = 1 ->
                \* dist.broadcast(local_size, src): zeros(1) off src
                [op |-> "broadcast", numel |-> 1,
                 sends |-> IF rank = root THEN own.size ELSE 0]
          [] kind = "broadcast_object" /\ k = 2 ->
                LET object_tensor == broadcast_buffer(rank, root, own.tensor, heard[1])
                IN  [op |-> "broadcast", numel |-> Len(object_tensor),
                     sends |-> Len(object_tensor)]
          [] kind = "scatter_object" /\ k = 1 ->
                \* dist.broadcast(max_object_size, src): LongTensor([0]) off src
                [op |-> "broadcast", numel |-> 1,
                 sends |-> IF rank = root THEN MaxObjectSize(local_sizes) ELSE 0]
          [] kind = "scatter_object" /\ k = 2 ->
                \* dist.scatter(local_size, scatter_list=local_sizes on src)
                [op |-> "scatter", numel |-> 1,
                 sends |-> IF rank = root THEN local_sizes ELSE <<>>]
          [] kind = "scatter_object" /\ k = 3 ->
                \* torch.zeros(int(max_object_size.item())) on every rank
                LET object_tensor == Zeros(heard[1])
                IN  [op |-> "scatter", numel |-> Len(object_tensor),
                     sends |-> Len(object_tensor)]

\* what rank q passed to its k-th transport collective (0: it has not
\* entered it, the receive buffer keeps its zeros)
Sent(q, k) == IF Len(xIssued[q]) >= k THEN xIssued[q][k].sends ELSE 0

\* A bug to compare with: a transport that waits for the callers only.
CallersArrived(k) == \A q \in xCallers : Len(xIssued[q]) >= k

\* the k-th transport collective is complete: every rank of the group has
\* entered it
AllArrived(k) == \A q \in CommRanks : Len(xIssued[q]) >= k

\* what the k-th transport collective hands the rank
Handed(op, k, rank, root) ==
    CASE op = "all_gather" -> [q \in CommRanks |-> Sent(q, k)]
      [] op = "gather" -> IF rank = root THEN [q \in CommRanks |-> Sent(q, k)] ELSE <<>>
      [] op = "broadcast" -> Sent(root, k)
      [] op = "scatter" ->
            IF Len(xIssued[root]) >= k /\ k = 2 THEN Sent(root, k)[rank]
            ELSE Sent(root, k)

InitTransport ==
    /\ IdleSingleton
    /\ IdleNamespace
    /\ IdleBuild
    /\ IdleObserve
    /\ IdleBiList
    /\ IdleScope
    /\ IdleLaunch
    /\ IdleComm
    /\ IdleTrain
    /\ xKind \in ObjectCollectives
    /\ xRoot \in CommRanks
    /\ xObjs \in [CommRanks -> SizedObjects]
    /\ xCallers \in SUBSET CommRanks
    /\ xPc = [r \in CommRanks |-> "idle"]
    /\ xIssued = [r \in CommRanks |-> <<>>]
    /\ xHeard = [r \in CommRanks |-> <<>>]

\* rank r enters its next transport collective
CollectiveEnter(r) ==
    /\ r \in xCallers
    /\ xPc[r] \in {"idle", "out"}
    /\ Len(xIssued[r]) < NumCollectives(xKind)
    /\ xIssued' = [xIssued EXCEPT ![r] =
           Append(@, TransportCall(xKind, r, xRoot, xObjs, xHeard[r]))]
    /\ xPc' = [xPc EXCEPT ![r] = "in"]
    /\ UNCHANGED <<xKind, xRoot, xObjs, xCallers, xHeard>>
    /\ UNCHANGED nonTransportVars

\* the transport collective rank r is in returns
CollectiveLeave(r) ==
    /\ xPc[r] = "in"
    /\ AllArrived(Len(xIssued[r]))
    /\ LET k == Len(xIssued[r])
       IN  xHeard' = [xHeard EXCEPT ![r] =
               Append(@, Handed(xIssued[r][k].op, k, r, xRoot))]
    /\ xPc' = [xPc EXCEPT ![r] = "out"]
    /\ UNCHANGED <<xKind, xRoot, xObjs, xCallers, xIssued>>
    /\ UNCHANGED nonTransportVars

\* the object collective returns on rank r after its last transport
\* collective
ObjectCollectiveReturn(r) ==
    /\ xPc[r] = "out"
    /\ Len(xIssued[r]) = NumCollectives(xKind)
    /\ xPc' = [xPc EXCEPT ![r] = "done"]
    /\ UNCHANGED <<xKind, xRoot, xObjs, xCallers, xIssued, xHeard>>
    /\ UNCHANGED nonTransportVars

RankStep(r) == CollectiveEnter(r) \/ CollectiveLeave(r) \/ ObjectCollectiveReturn(r)

NextTransport ==
    \/ \E r \in CommRanks : CollectiveEnter(r)
    \/ \E r \in CommRanks : CollectiveLeave(r)
    \/ \E r \in CommRanks : ObjectCollectiveReturn(r)

SpecTransport == InitTransport /\ [][NextTransport]_vars

\* every rank is a process of its own that goes on while it can
SpecTransportFair == SpecTransport /\ \A r \in CommRanks : WF_vars(RankStep(r))

(***************************************************************************)
(* The build steps of DistributedLaunch.  A handler tree is written as the *)
(* list of its handlers in order; a handler is a record of its class and   *)
(* of a number that tells the handler objects apart.  get_by_class and     *)
(* insert_after_self are methods of the handlers: the first collects the   *)
(* handlers of a class in tree order, the second puts a handler right      *)
(* after the one it is called on, in the list that holds it.               *)
(***************************************************************************)
\* The longest handler tree before the build steps.
MaxTree == 2

\* the trees of n handlers before the build steps: metric handlers and
\* others, numbered from base
BuiltTrees(base) ==
    UNION {{[i \in 1..n |-> [cls |-> c[i], uid |-> base + i]] :
               c \in [1..n -> {"Metrics", "Other"}]} : n \in 0..MaxTree}

\* container.get_by_class(cls)
get_by_class(tree, cls) == SelectSeq(tree, LAMBDA h : h.cls = cls)

\* self.insert_after_self(handler), self a handler of the tree
insert_after_self(tree, self, handler) ==
    LET at == CHOOSE i \in 1..Len(tree) : tree[i] = self
    IN  SubSeq(tree, 1, at) \o <<handler>> \o SubSeq(tree, at + 1, Len(tree))

\* handler.GatherAverage(_id=''): a new handler object
GatherAverage(tree) == [cls |-> "GatherAverage", uid |-> 100 + Len(tree)]

\* for m_handler in metric_handlers: m_handler.insert_after_self(...)
RECURSIVE InsertLoop(_, _)
InsertLoop(tree, metric_handlers) ==
    IF metric_handlers = <<>> THEN tree
    ELSE InsertLoop(insert_after_self(tree, Head(metric_handlers), GatherAverage(tree)),
                    Tail(metric_handlers))

\* DistributedLaunch.after_build_train: the metric handlers of ctx.run.train
after_build_train(train, eval) ==
    [train |-> InsertLoop(train, get_by_class(train, "Metrics")), eval |-> eval]

\* DistributedLaunch.after_build_eval: the metric handlers of ctx.run.train
after_build_eval(train, eval) ==
    [train |-> InsertLoop(train, get_by_class(train, "Metrics")), eval |-> eval]

InitBuild ==
    /\ IdleSingleton
    /\ IdleNamespace
    /\ IdleTransport
    /\ IdleObserve
    /\ IdleBiList
    /\ IdleScope
    /\ IdleLaunch
    /\ IdleComm
    /\ IdleTrain
    /\ runTrain \in BuiltTrees(0)
    /\ runEval \in BuiltTrees(10)
    /\ runBuilt = <<>>

\* the hook's build step of the training pipeline, run once
AfterBuildTrain ==
    /\ \A i \in 1..Len(runBuilt) : runBuilt[i] # "after_build_train"
    /\ \E r \in {after_build_train(runTrain, runEval)} :
           /\ runTrain' = r.train
           /\ runEval' = r.eval
    /\ runBuilt' = Append(runBuilt, "after_build_train")
    /\ UNCHANGED nonBuildVars

\* the hook's build step of the evaluation pipeline, run once
AfterBuildEval ==
    /\ \A i \in 1..Len(runBuilt) : runBuilt[i] # "after_build_eval"
    /\ \E r \in {after_build_eval(runTrain, runEval)} :
           /\ runTrain' = r.train
           /\ runEval' = r.eval
    /\ runBuilt' = Append(runBuilt, "after_build_eval")
    /\ UNCHANGED nonBuildVars

NextBuild ==
    \/ AfterBuildTrain
    \/ AfterBuildEval

SpecBuild == InitBuild /\ [][NextBuild]_vars

(***************************************************************************)
(* Claims about the scoped attributes.                                     *)
(***************************************************************************)
\* Every scope of the ScopedAttr methods assign__ / restore__
ByScopedAttr(e) == e.api \in {"assign__", "restore__"}

\* C1 as stated: after an assign__ or restore__ scope exits, whatever the
\* block's outcome, every named attribute equals the value it had just
\* before the scope was entered (NOTHING standing for unset).
C1_AllRestored ==
    ByScopedAttr(lastExit) =>
        \A n \in lastExit.attrs : Getattr(obj, n) = lastExit.snap[n]

\* C1 amended: after an assign__ or restore__ scope exits, whatever the
\* block's outcome, every named attribute whose write-back the target
\* accepts equals the value it had just before the scope was entered, and a
\* named attribute whose write-back raises keeps the value it had when the
\* block ended.
C1_AcceptedRestored ==
    ByScopedAttr(lastExit) =>
        \A n \in lastExit.attrs :
            /\ n \notin lastExit.rejected => Getattr(obj, n) = lastExit.snap[n]
            /\ n \in lastExit.rejected => Getattr(obj, n) = lastExit.atExit[n]

\* an assign__ scope is left by an exception and puts back an attribute the
\* block had changed and that was unset before the scope
C1_Witness ==
    /\ lastExit.api = "assign__"
    /\ lastExit.excIn = "BlockError"
    /\ \E n \in lastExit.attrs \ lastExit.rejected :
        /\ lastExit.snap[n] = NOTHING
        /\ lastExit.atExit[n] # NOTHING
        /\ Getattr(obj, n) = NOTHING

\* The target and what was rejected after leaving the live scopes from the
\* innermost down to scope k.
RECURSIVE UnwindTo(_, _, _, _)
UnwindTo(o, ro, live, k) ==
    LET self == live[Len(live)]
        r == ScopedAttrRestore__exit__(self, o, ro, "none")
        rejected == {n \in SeqRange(self.attrs) : SetattrRaises(o, ro, n)}
    IN  IF Len(live) = k THEN [obj |-> r.obj, rejected |-> rejected]
        ELSE UnwindTo(r.obj, ro, Front(live), k)

C3_RestoreErrorSuppressed ==
    (lastExit.api # "none" /\ lastExit.rejected # {}) =>
        /\ lastExit.excOut = lastExit.excIn
        /\ lastExit.failed = lastExit.rejected
        /\ \A n \in lastExit.attrs \ lastExit.rejected :
               Getattr(obj, n) = lastExit.snap[n]

\* the block raised, the first write-back was rejected, and the attribute
\* after it was still put back
C3_Witness ==
    /\ lastExit.api = "restore__"
    /\ lastExit.rejected = {"b"}
    /\ lastExit.excIn = "BlockError"
    /\ lastExit.excOut = "BlockError"
    /\ lastExit.atExit["a"] # lastExit.snap["a"]
    /\ Getattr(obj, "a") = lastExit.snap["a"]

(***************************************************************************)
(* Claims about the rank gate.                                             *)
(***************************************************************************)
\* the gate permits handler exec_ranks e on rank r
Permitted(e, r) == e.kind = "pass" \/ (e.kind = "ranks" /\ r \in e.ranks)

ByDistributed == hook = "DistributedLaunch" /\ lastCall.handler # "none"

\* C4: DistributedLaunch.handler_call invokes the handler's handle exactly
\* when exec_ranks is the ellipsis or an explicit collection containing the
\* current rank, never otherwise, and completes without raising.
C4_RankGate ==
    ByDistributed =>
        /\ lastCall.invoked <=> Permitted(lastCall.exec_ranks, lastCall.rank)
        /\ lastCall.raised = "none"

\* C5: a handler_call that is gated out on the current rank is a no-op: it
\* returns, the execution context is as before and the handler did not run.
C5_GatedOutNoOp ==
    (ByDistributed /\ ~Permitted(lastCall.exec_ranks, lastCall.rank)) =>
        /\ lastCall.raised = "none"
        /\ launchCtx = lastCall.before
        /\ ~lastCall.invoked

(***************************************************************************)
(* Claims about the object collectives.                                    *)
(***************************************************************************)
\* C6: when every rank calls all_gather_object with its own object, every
\* rank's returned list is [o_0, ..., o_{n-1}] in rank order, whatever the
\* serialized sizes (shorter payloads, an empty object) and whatever the
\* resized tensors hold beyond their true length.
C6_AllGatherRoundTrip ==
    \A r \in CommRanks : commPc[r] = "done" => commResult[r] = commObjs

\* every rank has returned; the objects differ in size, one is empty, and a
\* padded tensor carries a STOP byte beyond its true length
C6_Witness ==
    /\ \A r \in CommRanks : commPc[r] = "done"
    /\ \E r, q \in CommRanks :
        /\ commObjs[r] = <<>>
        /\ Len(commObjs[q]) > 0
        /\ Len(netPayload[r]) > commLocal[r].local_size
        /\ netPayload[r][Len(netPayload[r])] = "STOP"
        /\ commResult[q][r] = <<>>
        /\ commResult[r][q] = commObjs[q]


(***************************************************************************)
(* Claims about the iteration containers and gradient accumulation.        *)
(***************************************************************************)
\* the run has the optimizer / the loss function configured
HasOptimizer == ctx_check(pipeline_ctx, "optimizer")
HasLoss == ctx_check(pipeline_ctx, "loss_func")

\* the steps, in order, whose traversal ended with an optimizer update
UpdatedSteps == {tTrace[j].step : j \in {k \in 1..Len(tTrace) : tTrace[k].update}}

\* C7: with an optimizer configured, the update and gradient reset happen
\* after step i exactly when (i+1) mod A = 0 or i+1 = total; a finished epoch
\* of total = 10 with A = 3 has updated after steps 2, 5, 8, 9 and no other.
C7_UpdateRule ==
    HasOptimizer =>
        /\ \A j \in 1..Len(tTrace) :
               LET i == tTrace[j].step
                   total == tTrace[j].total
                   A == Getattr(pipeline_ctx, "grad_acc")
               IN  tTrace[j].update <=> ((i + 1) % A = 0 \/ i + 1 = total)
        /\ ( /\ tMode = "IterationContainer"
             /\ tPc = "done"
             /\ Len(loader) = 10
             /\ Getattr(pipeline_ctx, "grad_acc") = 3 )
           => UpdatedSteps = {2, 5, 8, 9}

\* a finished epoch of 10 steps, A = 3, whose last update is the flush
C7_Witness ==
    /\ HasOptimizer
    /\ tMode = "IterationContainer"
    /\ tPc = "done"
    /\ Len(tTrace) = 10
    /\ Getattr(pipeline_ctx, "grad_acc") = 3
    /\ tTrace[10].update
    /\ tTrace[9].update
    /\ ~tTrace[8].update

\* C8: for total >= 1, A >= 1 and a step i in [0, total), with
\* last = total mod A, the loss is divided by A when total - i - 1 >= last
\* and by last otherwise.
C8_Divisor ==
    HasLoss =>
        \A j \in 1..Len(tTrace) :
            LET i == tTrace[j].step
                total == tTrace[j].total
                A == Getattr(pipeline_ctx, "grad_acc")
                last == total % A
            IN  (total >= 1 /\ A >= 1 /\ i >= 0 /\ i < total) =>
                    tTrace[j].divisor = IF (total - i - 1) >= last THEN A ELSE last

\* a run where some step was divided by A and a later one by last, 1 < last < A
C8_Witness ==
    /\ HasLoss
    /\ \E j, k \in 1..Len(tTrace) :
           /\ j < k
           /\ tTrace[j].divisor = Getattr(pipeline_ctx, "grad_acc")
           /\ tTrace[k].divisor = tTrace[k].total % Getattr(pipeline_ctx, "grad_acc")
           /\ tTrace[k].divisor > 1
           /\ tTrace[k].divisor < tTrace[j].divisor
           /\ tTrace[k].step < tTrace[k].total

\* the epoch of the example: total = 10, A = 3, a loss at every step
TenByThree ==
    /\ HasLoss
    /\ tMode = "IterationContainer"
    /\ Len(loader) = 10
    /\ Getattr(pipeline_ctx, "grad_acc") = 3

\* C9 as stated: for total = 10 and A = 3, steps 0..6 are divided by 3 and
\* steps 7..9 by 1.
C9_SplitAtSeven ==
    TenByThree =>
        \A j \in 1..Len(tTrace) :
            tTrace[j].divisor = IF tTrace[j].step <= 6 THEN 3 ELSE 1

\* C9 as the code has it: for total = 10 and A = 3, steps 0..8 are divided
\* by 3 and step 9, the trailing group of one, by 1.
C9_SplitAtNine ==
    TenByThree =>
        \A j \in 1..Len(tTrace) :
            tTrace[j].divisor = IF tTrace[j].step <= 8 THEN 3 ELSE 1

\* the finished epoch of the example
C9_Witness ==
    /\ TenByThree
    /\ tPc = "done"
    /\ Len(tTrace) = 10
    /\ tTrace[8].divisor = 3
    /\ tTrace[9].divisor = 3
    /\ tTrace[10].divisor = 1

\* a StepIterationContainer over a non-empty loader with start < total
StepRun ==
    /\ tMode = "StepIterationContainer"
    /\ loader # NoLoader
    /\ Len(loader) > 0
    /\ Getattr(iteration_ctx, "start") < Getattr(iteration_ctx, "total")

\* the children ran once for each of start, start+1, ... so far, below
\* total, on the batches of the cycled loader; a finished run made them all
StepsInOrder ==
    StepRun =>
        LET start == Getattr(iteration_ctx, "start")
            total == Getattr(iteration_ctx, "total")
        IN  /\ \A j \in 1..Len(tTrace) :
                   /\ tTrace[j].step = start + j - 1
                   /\ tTrace[j].step < total
                   /\ tTrace[j].batch = loader[((j - 1) % Len(loader)) + 1]
            /\ tPc = "done" => Len(tTrace) = total - start
            /\ (tPc = "done" /\ start = 3 /\ total = 5) =>
                   [j \in 1..Len(tTrace) |-> tTrace[j].step] = <<3, 4>>

\* C10: over a non-empty cycled loader with start < total the children run
\* exactly once for each step start, ..., total-1 in order, and the
\* container then terminates; total = 5, start = 3 runs steps 3 and 4 only.
C10_StepTermination ==
    /\ []StepsInOrder
    /\ StepRun ~> (tPc = "done")

\* total = 5, start = 3 over a loader of one batch, cycled, has finished
C10_Witness ==
    /\ StepRun
    /\ tPc = "done"
    /\ Getattr(iteration_ctx, "start") = 3
    /\ Getattr(iteration_ctx, "total") = 5
    /\ Len(loader) = 1
    /\ Len(tTrace) = 2
    /\ tTrace[2].step = 4
    /\ tTrace[2].batch = loader[1]

(***************************************************************************)
(* Claims about the epoch container and the end-to-end training run.       *)
(***************************************************************************)
\* the entries of the epoch container's history of one kind
EpochEvents(kind) == LET OfKind(e) == e.event = kind IN SelectSeq(eTrace, OfKind)

\* the child traversals, made in the given epoch, that ended with an update
UpdatesIn(epoch) ==
    {j \in 1..Len(tTrace) : tTrace[j].update /\ tTrace[j].epoch = epoch}

\* the end-to-end run: 2 epochs of 4 steps, a loss, an optimizer, A = 2
EndToEnd ==
    /\ tMode = "EpochIterationContainer"
    /\ HasLoss
    /\ HasOptimizer
    /\ Getattr(pipeline_ctx, "grad_acc") = 2
    /\ loader # NoLoader
    /\ Len(loader) = 4
    /\ Getattr(iteration_ctx, "start") = 0
    /\ Getattr(iteration_ctx, "total") = 2

\* C11: in the run of 2 epochs with 4 steps each, a constant loss and
\* accumulation factor 2, the optimizer update is performed exactly 4
\* times over the whole run, 2 in each epoch.
C11_UpdateCount ==
    (EndToEnd /\ tPc = "done") =>
        /\ Cardinality({j \in 1..Len(tTrace) : tTrace[j].update}) = 4
        /\ Cardinality(UpdatesIn(0)) = 2
        /\ Cardinality(UpdatesIn(1)) = 2

\* the end-to-end run has returned after its 8 steps, each with a backward pass
C11_Witness ==
    /\ EndToEnd
    /\ tPc = "done"
    /\ Len(tTrace) = 8
    /\ \A j \in 1..8 : tTrace[j].divisor = 2
    /\ tTrace[8].update
    /\ tTrace[8].epoch = 1

\* C12 as stated: when handle has returned from the 2-epoch run (start 0,
\* total 2), iteration_ctx.current is 1.
C12_FinalCurrentIsOne ==
    (EndToEnd /\ tPc = "done") => Getattr(iteration_ctx, "current") = 1

\* C12 as the code has it: when handle has returned from the 2-epoch run,
\* iteration_ctx.current is what it was before handle was invoked (NOTHING
\* when it was unset); it was 1 only within the last epoch.
C12_FinalCurrentRestored ==
    (EndToEnd /\ tPc = "done") =>
        /\ Getattr(iteration_ctx, "current") = eTrace[1].current
        /\ EpochEvents("leave")[2].current = 1

\* the 2-epoch run has returned, current was unset before it and is NOTHING after
C12_Witness ==
    /\ EndToEnd
    /\ tPc = "done"
    /\ eTrace[1].current = NOTHING
    /\ Len(EpochEvents("leave")) = 2
    /\ EpochEvents("leave")[2].current = 1
    /\ Getattr(iteration_ctx, "current") = NOTHING

\* C19: handle runs the child traversal exactly once for each epoch index
\* start, start+1, ..., total-1 in increasing order, with
\* iteration_ctx.current equal to that index for the whole traversal, and
\* zero times when start >= total.
C19_EpochsInOrder ==
    (tMode = "EpochIterationContainer" /\ tRaised = "none" /\ tPc # "idle") =>
        LET start == Getattr(iteration_ctx, "start")
            total == Getattr(iteration_ctx, "total")
            entered == EpochEvents("enter")
            left == EpochEvents("leave")
        IN  /\ \A j \in 1..Len(entered) :
                   /\ entered[j].index = start + j - 1
                   /\ entered[j].index < total
                   /\ entered[j].current = entered[j].index
            /\ \A j \in 1..Len(left) :
                   /\ left[j].index = entered[j].index
                   /\ left[j].current = left[j].index
            /\ Len(left) <= Len(entered)
            /\ Len(entered) <= Len(left) + 1
            /\ (tPc = "loop" /\ tK > 0) =>
                   tTrace[Len(tTrace)].epoch = entered[Len(entered)].index
            /\ tPc = "done" =>
                   /\ Len(entered) = IF start < total THEN total - start ELSE 0
                   /\ Len(left) = Len(entered)

\* a run of epochs 0 and 1 with steps in each has returned
C19_Witness ==
    /\ tMode = "EpochIterationContainer"
    /\ tPc = "done"
    /\ Len(EpochEvents("enter")) = 2
    /\ EpochEvents("enter")[1].current = 0
    /\ EpochEvents("leave")[2].current = 1
    /\ Len(tTrace) >= 2
    /\ tTrace[1].epoch = 0
    /\ tTrace[Len(tTrace)].epoch = 1

\* a run with start >= total has returned without an epoch
C19_NoEpoch ==
    /\ tMode = "EpochIterationContainer"
    /\ tPc = "done"
    /\ Getattr(iteration_ctx, "start") >= Getattr(iteration_ctx, "total")
    /\ EpochEvents("enter") = <<>>

\* C20: if iteration_ctx.total is absent when handle is invoked, the run is
\* halted by an error before any epoch is entered: no child handler runs and
\* iteration_ctx.current is never assigned.
C20_MissingTotalHalts ==
    ( /\ tMode = "EpochIterationContainer"
      /\ ~ctx_check(iteration_ctx, "total")
      /\ tPc # "idle" ) =>
        /\ tPc = "raised"
        /\ tRaised \in {"ContextCheckError", "TypeError"}
        /\ EpochEvents("enter") = <<>>
        /\ tTrace = <<>>
        /\ tEpoch = 0
        /\ "current" \notin DOMAIN iteration_ctx

\* handle was invoked without iteration_ctx.total and was halted
C20_Witness ==
    /\ tMode = "EpochIterationContainer"
    /\ ~ctx_check(iteration_ctx, "total")
    /\ tPc = "raised"
    /\ Len(eTrace) = 1

(***************************************************************************)
(* Claims about the observable.  They are read off the two histories: the  *)
(* log of the calls and the callbacks each call invoked.                   *)
(***************************************************************************)
\* the call e asks to subscribe the observer to the name
Subscribes(e, observer, name) ==
    /\ e.observer = observer
    /\ \/ e.op = "attach__" /\ name \in observe_inspect(observer)
       \/ e.op = "attach_attr__" /\ e.name = name

\* the call e asks to end the observer's subscription to the name
Unsubscribes(e, observer, name) ==
    /\ e.observer = observer
    /\ \/ e.op = "detach__"
       \/ e.op = "detach_attr__" /\ e.name = name

\* the calls before the k-th that asked for the subscription and were not
\* followed by a call that ended it
Attachments(observer, name, k) ==
    {j \in 1..(k - 1) :
        /\ Subscribes(oLog[j], observer, name)
        /\ \A m \in (j + 1)..(k - 1) : ~Unsubscribes(oLog[m], observer, name)}

\* the callbacks of the observer for the name that the k-th call invoked
CallsAt(k, observer, name) ==
    {i \in 1..Len(oCalls) :
        oCalls[i].at = k /\ oCalls[i].observer = observer /\ oCalls[i].name = name}

\* the k-th call assigns the name a value that is not the one it holds
Changes(k, name) ==
    /\ oLog[k].op = "__setattr__"
    /\ oLog[k].name = name
    /\ oLog[k].value # Getattr(oLog[k].before, name)

\* C13: when attach operations have subscribed the same observer to the
\* same attribute more than once, each change of the attribute's value
\* invokes the observer's callback exactly once.
C13_AttachIdempotent ==
    \A k \in 1..Len(oLog) : \A observer \in Observers, name \in AttrNames :
        (Changes(k, name) /\ Cardinality(Attachments(observer, name, k)) >= 2) =>
            Cardinality(CallsAt(k, observer, name)) = 1

\* C14: detach__(observer) returns, and from then on no assignment invokes
\* a callback of the observer, whatever attach calls came before.
C14_DetachRemovesAll ==
    \A k \in 1..Len(oLog) :
        oLog[k].op = "detach__" =>
            /\ oLog[k].raised = "none"
            /\ \A m \in (k + 1)..Len(oLog) : \A name \in AttrNames :
                   (Attachments(oLog[k].observer, name, m + 1) \cap (k + 1)..m = {}) =>
                       CallsAt(m, oLog[k].observer, name) = {}

\* C15: an attach with init=True invokes each newly subscribed callback
\* exactly once, at once, with the attribute's current value as new and
\* NOTHING as old; with init=False, and for the names the observer is
\* already subscribed to, the attach invokes nothing.
C15_AttachInit ==
    \A k \in 1..Len(oLog) : \A name \in AttrNames :
        LET e == oLog[k]
            fresh == Subscribes(e, e.observer, name)
                       /\ Attachments(e.observer, name, k) = {}
        IN  e.op \in {"attach__", "attach_attr__"} =>
                IF e.init /\ fresh
                THEN /\ e.raised = "none"
                     /\ Cardinality(CallsAt(k, e.observer, name)) = 1
                     /\ \A i \in CallsAt(k, e.observer, name) :
                            /\ oCalls[i].new = Getattr(e.before, name)
                            /\ oCalls[i].old = NOTHING
                ELSE CallsAt(k, e.observer, name) = {}

\* C16: an assignment always writes the attribute; it notifies only when
\* the attribute has subscribers and the new value is not the one held.
C16_NotifyOnlyOnChange ==
    \A k \in 1..Len(oLog) :
        LET e == oLog[k]
        IN  e.op = "__setattr__" =>
                /\ e.raised = "none"
                /\ Getattr(e.after, e.name) = e.value
                /\ \A observer \in Observers :
                       CallsAt(k, observer, e.name) # {} =>
                           /\ Changes(k, e.name)
                           /\ Attachments(observer, e.name, k) # {}

(***************************************************************************)
(* Claims about the containers and their items.                            *)
(***************************************************************************)
\* the item's parent reference is a container exactly when the item is in
\* that container's list, and NOTHING exactly when it is in no list
ParentIffMember(item) ==
    /\ \A c \in Containers : parent[item] = c <=> item \in SeqRange(lists[c])
    /\ parent[item] = NOTHING <=> \A c \in Containers : item \notin SeqRange(lists[c])

\* the invariant over all histories, the ones included in which an item
\* was added to a second container, which set_parent__ only warns about
ParentIffMemberAlways == \A item \in Items : ParentIffMember(item)

\* C17: after any sequence of container mutations, an item's parent
\* reference is a container exactly when the item is currently a member of
\* that container, and is absent exactly when it is a member of none.  It
\* is stated for the histories in which no item was ever added while it
\* was a member of a list already.
C17_ParentIffMember == bClean => \A item \in Items : ParentIffMember(item)

\* C18: adding an item that has a parent to another container completes
\* with a warning and the item's parent is the container it was added to
\* last; adding it where its parent already is gives no warning.
C18_ReparentWarns ==
    bLast.op \in {"insert", "append"} =>
        /\ bLast.item \in SeqRange(lists[bLast.c])
        /\ parent[bLast.item] = bLast.c
        /\ bLast.warned <=> (bLast.prev # NOTHING /\ bLast.prev # bLast.c)

\* an item of container 1 was appended to container 2, with a warning
C18_Witness ==
    /\ bLast.op = "append"
    /\ bLast.c = 2
    /\ bLast.prev = 1
    /\ bLast.warned
    /\ bLast.item \in SeqRange(lists[1])
    /\ parent[bLast.item] = 2

(***************************************************************************)
(* Claims about absent collaborators.                                      *)
(***************************************************************************)
\* C21: when get_loader returns None or NOTHING, IterationContainer.handle
\* and StepIterationContainer.handle return without raising, run no child
\* and leave step_ctx and iteration_ctx as they found them.
C21_NoLoaderReturns ==
    (tMode \in {"IterationContainer", "StepIterationContainer"} /\ loader = NoLoader) =>
        /\ tPc \in {"idle", "done"}
        /\ tRaised = "none"
        /\ tTrace = <<>>
        /\ <<step_ctx, iteration_ctx>> = tBefore

\* StepIterationContainer.handle has returned from a run without a loader
\* in which start is below total
C21_Witness ==
    /\ tMode = "StepIterationContainer"
    /\ loader = NoLoader
    /\ tPc = "done"
    /\ Getattr(iteration_ctx, "start") = 0
    /\ Getattr(iteration_ctx, "total") = 2

\* the history entries of one handler
HandledBy(handler) == {i \in 1..Len(hLog) : hLog[i].handler = handler}

\* the attribute has in the context the handler leaves the value it had
Kept(e, name) == Getattr(e.after, name) = Getattr(e.before, name)

\* the collaborator is not set, or set to NOTHING
Absent(namespace, name) == Getattr(namespace, name) = NOTHING

Mentions(calls, call) == \E j \in 1..Len(calls) : calls[j] = call

ChildCalls == {"BackwardHandler.handle", "loss_reduction", "backward"}

\* the update condition on the context the call was made on
ConditionHolds(e) ==
    /\ Getattr(pipeline_ctx, "optimizer") # NOTHING
    /\ UpdateDue(Getattr(e.before, "total"), Getattr(e.before, "current"),
                 Getattr(pipeline_ctx, "grad_acc"))

\* C30: in one call of OptimizerContainer.handle that returns, the children
\* run before the update condition is evaluated; when the condition holds
\* optimizer.step() is called once and then optimizer.zero_grad() once, and
\* when it does not hold neither is called.
C30_UpdateAfterChildren ==
    \A i \in HandledBy("OptimizerContainer") :
        hLog[i].raised = "none" =>
            \E k \in 1..Len(hLog[i].calls) :
                /\ hLog[i].calls[k] = "update condition"
                /\ hLog[i].calls[1] = "BackwardHandler.handle"
                /\ \A j \in 1..(k - 1) : hLog[i].calls[j] \in ChildCalls
                /\ SubSeq(hLog[i].calls, k + 1, Len(hLog[i].calls)) =
                       IF ConditionHolds(hLog[i])
                       THEN <<"optimizer.step", "optimizer.zero_grad">>
                       ELSE <<>>

\* a call with a loss and an optimizer at the last step of two, with an
\* accumulation factor of three: backward pass, then the step, then the reset
C30_Witness ==
    /\ Len(hLog) = 2
    /\ hLog[1].handler = "OptimizerContainer"
    /\ hLog[1].calls = <<"BackwardHandler.handle", "loss_reduction", "backward",
                         "update condition", "optimizer.step", "optimizer.zero_grad">>
    /\ Getattr(pipeline_ctx, "grad_acc") = 3
    /\ Getattr(hLog[1].before, "current") = 1
    /\ Getattr(hLog[1].before, "total") = 2

(***************************************************************************)
(* Claims about the bounds of the step loop.                               *)
(***************************************************************************)
\* C28: for every start and total, start >= total included,
\* StepIterationContainer never runs its children for a global step index
\* current with current >= total.
C28_NoStepFromTotalOn ==
    tMode = "StepIterationContainer" =>
        \A j \in 1..Len(tTrace) : tTrace[j].step < Getattr(iteration_ctx, "total")

(***************************************************************************)
(* Claims about a child handler that raises.                               *)
(***************************************************************************)
\* a child has raised in this run
ChildRaised == \E j \in 1..Len(eTrace) : eTrace[j].event = "raise"

\* the scoped attributes have the values they had when handle was called
ScopedAsBefore ==
    /\ \A n \in {"total", "current", "batch"} :
           Getattr(step_ctx, n) = Getattr(tBefore[1], n)
    /\ Getattr(iteration_ctx, "current") = Getattr(tBefore[2], "current")

\* C29: a child that raises in step k of IterationContainer or
\* StepIterationContainer, or in epoch e of EpochIterationContainer, ends
\* handle with its exception: no scope stays open, no later step or epoch
\* is started, and step_ctx.total, step_ctx.current, step_ctx.batch and
\* iteration_ctx.current have the values they had before handle was called.
C29_ChildRaisePropagates ==
    /\ [](ChildRaised =>
            /\ tPc = "raised"
            /\ tRaised = "ChildError"
            /\ tScopes = <<>>
            /\ eTrace[Len(eTrace)].event = "raise"
            /\ ScopedAsBefore)
    /\ [][ChildRaised => UNCHANGED <<tTrace, eTrace, tK, tEpoch, step_ctx, iteration_ctx>>]_vars

\* the OptimizerContainer has raised in the second step of the second epoch
\* of an EpochIterationContainer run on a context with earlier values
C29_Witness ==
    /\ tMode = "EpochIterationContainer"
    /\ ChildRaised
    /\ tEpoch = 2
    /\ tK = 1
    /\ Len(tTrace) = 3
    /\ Getattr(step_ctx, "loss") = 200 + loader[2]
    /\ Getattr(tBefore[1], "total") = 50
    /\ Getattr(tBefore[2], "current") = 50

(***************************************************************************)
(* Claims about the rooted object collectives.                             *)
(***************************************************************************)
\* C23: when every rank calls gather_object with the same dst, the rank dst
\* returns the list [o_0, ..., o_{n-1}] in rank order, whatever the
\* serialized sizes, and every other rank returns None.
C23_GatherToDst ==
    \A r \in CommRanks :
        commPc[r] = "done" =>
            commResult[r] = IF r = commRoot THEN commObjs ELSE ReturnsNone

\* every rank has returned from a gather to the last rank; the objects
\* differ in size, one is empty, and a padded tensor carries a STOP byte
\* beyond its true length
C23_Witness ==
    /\ commRoot = WorldSize - 1
    /\ \A r \in CommRanks : commPc[r] = "done"
    /\ commResult[0] = ReturnsNone
    /\ \E r, q \in CommRanks :
        /\ commObjs[r] = <<>>
        /\ Len(commObjs[q]) > 0
        /\ Len(netPayload[r]) > commLocal[r].local_size
        /\ netPayload[r][Len(netPayload[r])] = "STOP"
        /\ commResult[commRoot][r] = <<>>
        /\ commResult[commRoot][q] = commObjs[q]

\* C24: when every rank calls broadcast_object with the same src, every
\* rank, src included, returns the object src passed; what the other ranks
\* passed has no influence.
C24_BroadcastFromSrc ==
    \A r \in CommRanks : commPc[r] = "done" => commResult[r] = commObjs[commRoot]

\* every rank has returned from a broadcast from the last rank, and rank 0
\* had passed another object
C24_Witness ==
    /\ commRoot = WorldSize - 1
    /\ netScalar = Len(Dumps(commObjs[commRoot]))
    /\ \A r \in CommRanks : commPc[r] = "done"
    /\ commObjs[0] # commObjs[commRoot]
    /\ Len(commObjs[commRoot]) > 0
    /\ commResult[0] = commObjs[commRoot]

\* C25: when every rank calls scatter_object with the same src and src
\* passes a list of one object for each rank, rank i returns the i-th
\* object of the list, whatever the serialized sizes of the objects.
C25_ScatterFromSrc ==
    \A r \in CommRanks : commPc[r] = "done" => commResult[r] = commList[r]

\* every rank has returned from a scatter from rank 0; the object of the
\* last rank is longer than the object of rank 0, which is empty, and the
\* tensor of rank 0 carries a STOP byte beyond its true length
C25_Witness ==
    /\ commRoot = 0
    /\ \A r \in CommRanks : commPc[r] = "done"
    /\ commList[0] = <<>>
    /\ Len(commList[WorldSize - 1]) > 0
    /\ Len(commLocal[0].object_tensor) > commLocal[0].local_size
    /\ commLocal[0].object_tensor[Len(commLocal[0].object_tensor)] = "STOP"
    /\ commResult[WorldSize - 1] = commList[WorldSize - 1]

(***************************************************************************)
(* Claims about Singleton.                                                 *)
(***************************************************************************)
\* C26: for every interleaving of concurrent constructor calls on a
\* Singleton-decorated class, the class is instantiated at most once and
\* every caller receives that one instance.
C26_OneInstance ==
    /\ sMade <= 1
    /\ \A t \in Threads : sPc[t].at = "done" => (sMade = 1 /\ sGot[t] = 1)

\* under the decorator of utils/decorators.py one thread has made the
\* instance and returned with it, and another, which had passed the first
\* check before the instance was stored, holds both locks and finds it
C26_Witness ==
    /\ sImpl = "decorators"
    /\ sMade = 1
    /\ sInstance = 1
    /\ \E t, u \in Threads :
        /\ sPc[t].at = "done"
        /\ sGot[t] = 1
        /\ sPc[u].at = "recheck"
        /\ sLocks["t_lock"] = u
        /\ sLocks["p_lock"] = u

(***************************************************************************)
(* Claims about the Base namespaces.                                       *)
(***************************************************************************)
\* the segments of the item up to the k-th
Prefix(k) == SubSeq(nsItem, 1, k)

\* every segment of the item resolves to a value other than NOTHING
Resolves ==
    \A k \in 1..Len(nsItem) :
        Prefix(k) \in DOMAIN nsAttrs /\ nsAttrs[Prefix(k)] # "NOTHING"

\* C27: reading an attribute that was never set on a Base namespace yields
\* NOTHING and does not raise; check__ of a dotted path returns True exactly
\* when every segment resolves to a value other than NOTHING, where None, 0
\* and an empty container count as values; check__ does not raise.
C27_AbsentSentinel ==
    /\ (nsResult.op = "getattr" /\ <<nsItem[1]>> \notin DOMAIN nsAttrs) =>
           (nsResult.value = "NOTHING" /\ nsResult.raised = "none")
    /\ nsResult.op = "check__" =>
           (nsResult.raised = "none" /\ (nsResult.result <=> Resolves))

\* check__('a.b') with a a namespace and a.b None is True
C27_Witness ==
    /\ nsItem = <<"a", "b">>
    /\ nsAttrs = (<<"a">> :> "Base" @@ <<"a", "b">> :> "None")
    /\ nsResult.op = "check__"
    /\ nsResult.result = TRUE

(***************************************************************************)
(* Claims about the divisor and the update groups.                         *)
(***************************************************************************)
\* an epoch of total >= 1 steps, 0 .. total-1, run to its end with a loss
\* function and an optimizer
FinishedEpoch ==
    /\ HasLoss
    /\ HasOptimizer
    /\ loader # NoLoader
    /\ tPc = "done"
    /\ Len(tTrace) >= 1
    /\ tTrace[1].step = 0
    /\ Len(tTrace) = tTrace[1].total

\* the update group of the j-th traversal: the maximal run of consecutive
\* traversals around j that ends at the first update from j on
GroupFirst(j) ==
    CHOOSE k \in 1..j :
        /\ \A m \in k..(j - 1) : ~tTrace[m].update
        /\ k > 1 => tTrace[k - 1].update

GroupLast(j) ==
    CHOOSE k \in j..Len(tTrace) :
        /\ tTrace[k].update
        /\ \A m \in j..(k - 1) : ~tTrace[m].update

GroupSize(j) == GroupLast(j) - GroupFirst(j) + 1

\* C31: in an epoch of total >= 1 steps with accumulation factor A >= 1, the
\* divisor BackwardHandler uses at step i is the number of steps of the
\* update group that holds i: the size of the shorter trailing group for its
\* steps, A for every other step.
C31_DivisorIsGroupSize ==
    FinishedEpoch =>
        \A j \in 1..Len(tTrace) :
            /\ tTrace[j].divisor = GroupSize(j)
            /\ LET total == tTrace[j].total
                   A == Getattr(pipeline_ctx, "grad_acc")
               IN  tTrace[j].divisor =
                       IF tTrace[j].step >= total - (total % A) THEN total % A ELSE A

\* an epoch of 8 steps with A = 3: two groups of three divided by 3 and the
\* trailing group of two divided by 2
C31_Witness ==
    /\ FinishedEpoch
    /\ Len(tTrace) = 8
    /\ Getattr(pipeline_ctx, "grad_acc") = 3
    /\ GroupSize(6) = 3
    /\ tTrace[6].divisor = 3
    /\ GroupSize(7) = 2
    /\ tTrace[7].divisor = 2
    /\ tTrace[8].divisor = 2

\* C39: for total >= 1, A >= 1 and a step i in [0, total) the value the loss
\* is divided by is a positive integer not greater than A; when total mod A
\* is 0 the remainder is never the divisor.
C39_DivisorPositive ==
    HasLoss =>
        \A j \in 1..Len(tTrace) :
            LET i == tTrace[j].step
                total == tTrace[j].total
                A == Getattr(pipeline_ctx, "grad_acc")
            IN  (total >= 1 /\ A >= 1 /\ i >= 0 /\ i < total) =>
                    /\ tTrace[j].divisor \in 1..A
                    /\ total % A = 0 => tTrace[j].divisor = A

\* a finished epoch of 9 steps with A = 3: the remainder is 0 and the last
\* step is divided by 3
C39_Witness ==
    /\ HasLoss
    /\ tMode = "IterationContainer"
    /\ tPc = "done"
    /\ Len(tTrace) = 9
    /\ Getattr(pipeline_ctx, "grad_acc") = 3
    /\ tTrace[9].total % 3 = 0
    /\ tTrace[9].divisor = 3

(***************************************************************************)
(* Claims about the traversals of IterationContainer.                      *)
(***************************************************************************)
\* IterationContainer.handle was called with a loader
IterationRun == tMode = "IterationContainer" /\ ~LoaderMissing(loader)

\* C32: IterationContainer.handle runs the traversal of the children once
\* per batch of the loader, in loader order; during the traversal of the
\* batch at position k (from 0) step_ctx.current is k and step_ctx.batch is
\* that batch, and during the whole iteration step_ctx.total is the
\* loader's length.
C32_OncePerBatch ==
    IterationRun =>
        /\ Len(tTrace) <= Len(loader)
        /\ \A j \in 1..Len(tTrace) :
               /\ tTrace[j].step = j - 1
               /\ tTrace[j].batch = loader[j]
               /\ tTrace[j].total = Len(loader)
        /\ tPc = "loop" => Getattr(step_ctx, "total") = Len(loader)
        /\ tPc = "done" => Len(tTrace) = Len(loader)

\* a finished iteration over three batches
C32_Witness ==
    /\ IterationRun
    /\ tPc = "done"
    /\ Len(loader) = 3
    /\ [j \in 1..3 |-> tTrace[j].step] = <<0, 1, 2>>
    /\ [j \in 1..3 |-> tTrace[j].batch] = loader

(***************************************************************************)
(* Claims about what the iteration scopes put back.                        *)
(***************************************************************************)
\* IterationContainer.handle has returned from its loop
IterationReturned ==
    /\ tMode = "IterationContainer"
    /\ ~LoaderMissing(loader)
    /\ tPc = "done"
    /\ tRaised = "none"

\* C38: when IterationContainer.handle returns, step_ctx.total,
\* step_ctx.current and step_ctx.batch have the values they had before the
\* call; what the children wrote on step_ctx (loss, loss_values) is not
\* taken back at the end of a step or of the iteration: it is what the last
\* executed step wrote, and what was there before if no step wrote it.
C38_IterationFrame ==
    IterationReturned =>
        /\ \A n \in {"total", "current", "batch"} :
               Getattr(step_ctx, n) = Getattr(tBefore[1], n)
        /\ \A n \in {"loss", "loss_values"} :
               Getattr(step_ctx, n) =
                   IF HasLoss /\ Len(loader) > 0
                   THEN 200 + loader[Len(loader)]
                   ELSE Getattr(tBefore[1], n)

\* an iteration of two steps on a context that had earlier values of total,
\* current, batch and loss: the three are back, the loss is the second
\* step's
C38_Witness ==
    /\ IterationReturned
    /\ HasLoss
    /\ Len(tTrace) = 2
    /\ DOMAIN tBefore[1] = {"total", "current", "batch", "loss"}
    /\ Getattr(step_ctx, "current") = 50
    /\ Getattr(step_ctx, "loss") = 200 + loader[2]
    /\ Getattr(step_ctx, "loss") # Getattr(tBefore[1], "loss")

(***************************************************************************)
(* Claims about the collectives over a blocking transport.                 *)
(***************************************************************************)
\* the kind and the shape of the k-th transport collective of rank r
Shape(r, k) == <<xIssued[r][k].op, xIssued[r][k].numel>>

\* the largest pickled size among the objects of the call
LargestSize == MaxObjectSize([i \in CommRanks |-> Len(Dumps(xObjs[i]))])

\* C34: within one call of all_gather_object, gather_object,
\* broadcast_object or scatter_object every rank issues the same sequence of
\* transport collectives, the same kinds in the same order over the same
\* buffer shapes, whether or not it is the source or destination and
\* whatever the size of its own payload: the length exchange on one-element
\* tensors first, the payload last on buffers of one size.
C34_RankSymmetry ==
    /\ \A r, q \in CommRanks :
           \A k \in 1..Len(xIssued[r]) :
               k <= Len(xIssued[q]) => Shape(r, k) = Shape(q, k)
    /\ \A r \in CommRanks :
           /\ \A k \in 1..Len(xIssued[r]) :
                  k < NumCollectives(xKind) => xIssued[r][k].numel = 1
           /\ xPc[r] = "done" =>
                  /\ Len(xIssued[r]) = NumCollectives(xKind)
                  /\ xIssued[r][Len(xIssued[r])].numel =
                         IF xKind = "broadcast_object" THEN Len(Dumps(xObjs[xRoot]))
                         ELSE LargestSize

\* a gather_object to rank 0 has returned on both ranks; rank 1, not the
\* destination, had the shorter payload and passed a tensor of the longer
\* size
C34_Witness ==
    /\ xKind = "gather_object"
    /\ xRoot = 0
    /\ \A r \in CommRanks : xPc[r] = "done"
    /\ Len(Dumps(xObjs[1])) < Len(Dumps(xObjs[0]))
    /\ Shape(1, 2) = <<"gather", Len(Dumps(xObjs[0]))>>
    /\ Shape(0, 2) = Shape(1, 2)

\* every rank of the group makes the call
AllCall == xCallers = CommRanks

\* C35: over a transport whose collectives block until every rank of the
\* group has arrived, if every rank calls the same object collective with
\* the same src/dst every rank's call eventually returns; if some rank
\* never makes the call, no rank's call ever returns.
C35_CollectiveLiveness ==
    /\ [](~AllCall => \A r \in CommRanks : xPc[r] # "done")
    /\ AllCall ~> (\A r \in CommRanks : xPc[r] = "done")

\* a scatter_object that every rank called has returned everywhere
C35_Witness ==
    /\ AllCall
    /\ xKind = "scatter_object"
    /\ \A r \in CommRanks : xPc[r] = "done" /\ Len(xHeard[r]) = 3

(***************************************************************************)
(* Claims about the build steps of the distributed launch hook.            *)
(***************************************************************************)
\* the build step was run
Ran(step) == \E i \in 1..Len(runBuilt) : runBuilt[i] = step

\* every metric handler of the tree has an aggregation handler right after
\* it
MetricsFollowed(tree) ==
    \A i \in 1..Len(tree) :
        tree[i].cls = "Metrics" =>
            i < Len(tree) /\ tree[i + 1].cls = "GatherAverage"

\* the tree has as many aggregation handlers as metric handlers
OnePerMetric(tree) ==
    Len(get_by_class(tree, "GatherAverage")) = Len(get_by_class(tree, "Metrics"))

\* C36: after after_build_train every metric handler of the training tree
\* is immediately followed by an aggregation handler, after after_build_eval
\* every metric handler of the evaluation tree is, and after both steps
\* each metric handler has exactly one aggregation handler after it.
C36_AggregationAfterMetrics ==
    /\ Ran("after_build_train") => MetricsFollowed(runTrain)
    /\ Ran("after_build_eval") => MetricsFollowed(runEval)
    /\ (Ran("after_build_train") /\ Ran("after_build_eval")) =>
           OnePerMetric(runTrain) /\ OnePerMetric(runEval)

(***************************************************************************)
(* Claims about the vanilla launch hook.                                   *)
(***************************************************************************)
\* the last call on the vanilla hook was handler_call
ByVanilla == hook = "VanillaLaunch" /\ lastCall.handler \in {"h1", "h2"}

\* C37: VanillaLaunch.handler_call invokes the handler's handle exactly
\* once whatever the handler's exec_ranks (the ellipsis, None, NOTHING or an
\* explicit collection), and get_rank and get_world_size return NOTHING.
C37_VanillaAlwaysRuns ==
    /\ ByVanilla =>
           /\ lastCall.invoked
           /\ lastCall.raised = "none"
           /\ launchCtx = Append(lastCall.before, lastCall.handler)
    /\ (hook = "VanillaLaunch" /\ lastCall.handler \in {"get_rank", "get_world_size"}) =>
           /\ lastCall.returned = NOTHING
           /\ launchCtx = lastCall.before

\* the vanilla hook has run, as the second handler of the run, a handler
\* whose exec_ranks is None
C37_Witness ==
    /\ ByVanilla
    /\ lastCall.exec_ranks.kind = "none"
    /\ Len(launchCtx) = 2
    /\ launchCtx[2] = lastCall.handler
    /\ ncalls = 2

(***************************************************************************)
(* Claims about the order of the notifications and about the two tables    *)
(* of the observable.                                                      *)
(***************************************************************************)
\* the observers subscribed to the name when the k-th call is made
Subscribers(name, k) ==
    {observer \in Observers : Attachments(observer, name, k) # {}}

\* the smallest number of a non-empty set of numbers
MinOf(S) == CHOOSE x \in S : \A y \in S : x <= y

\* C33: when an observed attribute changes, its subscribers are notified in
\* the order in which they were subscribed to it, each with the new value
\* and the value held before the assignment, and the attribute holds the
\* new value.
C33_NotifyInOrder ==
    \A k \in 1..Len(oLog) : \A name \in AttrNames :
        (Changes(k, name) /\ Subscribers(name, k) # {}) =>
            /\ oLog[k].raised = "none"
            /\ Getattr(oLog[k].after, name) = oLog[k].value
            /\ \A observer \in Subscribers(name, k) :
                   /\ CallsAt(k, observer, name) # {}
                   /\ \A i \in CallsAt(k, observer, name) :
                          /\ oCalls[i].new = oLog[k].value
                          /\ oCalls[i].old = Getattr(oLog[k].before, name)
            /\ \A o1, o2 \in Subscribers(name, k) :
                   MinOf(Attachments(o1, name, k)) < MinOf(Attachments(o2, name, k)) =>
                       \A i \in CallsAt(k, o1, name), j \in CallsAt(k, o2, name) : i < j

\* how many times the observer is in the subscriber list of the name
Occurrences(observer, name) ==
    IF oObserve.set /\ name \in DOMAIN oObserve.value
    THEN Cardinality({i \in 1..Len(oObserve.value[name]) :
                         oObserve.value[name][i] = observer})
    ELSE 0

\* the name is in the recorded name set of the observer
Recorded(observer, name) ==
    /\ oObserveAttrs.set
    /\ observer \in DOMAIN oObserveAttrs.value
    /\ name \in oObserveAttrs.value[observer]

\* one of the four subscription calls has been made
SubscriptionCalled ==
    \E k \in 1..Len(oLog) :
        oLog[k].op \in {"attach__", "attach_attr__", "detach__", "detach_attr__"}

\* C40: after any sequence of attach__, attach_attr__, detach__ and
\* detach_attr__ calls the observable has its two tables, every call has
\* returned, and an observer is in the subscriber list of a name exactly
\* when the name is in the observer's recorded name set, and then once.
C40_TablesConsistent ==
    SubscriptionCalled =>
        /\ oObserve.set
        /\ oObserveAttrs.set
        /\ \A k \in 1..Len(oLog) :
               oLog[k].op \in {"attach__", "attach_attr__", "detach__", "detach_attr__"} =>
                   oLog[k].raised = "none"
        /\ \A observer \in Observers, name \in AttrNames :
               /\ Occurrences(observer, name) >= 1 <=> Recorded(observer, name)
               /\ Occurrences(observer, name) <= 1

============================================================================
